---------------------------- MODULE Spec2Model ----------------------------
(***************************************************************************)
(* Route-optimisation engine of ItemRoutingSystem (src/app.py): grid       *)
(* shortest paths (dijkstra), the access graph (build_graph_for_order),    *)
(* matrix_reduction, the tour solvers (branch_and_bound, nearest_neighbor, *)
(* localized_min_path) under the SIGALRM deadline, and run_tsp_algorithm.  *)
(***************************************************************************)
EXTENDS Integers, Sequences, FiniteSets, TLC

VARIABLES
    map_x,                \* self.map_x: number of columns
    map_y,                \* self.map_y: number of rows
    map,                  \* self.map: grid[x][y] of cell symbols
    product_info,         \* self.product_info: product id -> position
    starting_position,    \* self.starting_position
    ending_position,      \* self.ending_position
    maximum_routing_time, \* self.maximum_routing_time (seconds)
    bnb_access_type,      \* self.bnb_access_type
    order_list,           \* handle_option: the product ids of the order request
    order,                \* the node order handed to the solvers
    graph,                \* self.graph: the access graph (insertion-ordered dict)
    alarm,                \* state of the SIGALRM timer: "off" | "armed" | "fired"
    pc,                   \* position of the running call
    dj,                   \* locals of dijkstra
    bld,                  \* locals of build_graph_for_order
    bnb,                  \* locals of branch_and_bound
    nn,                   \* locals of nearest_neighbor
    lmp,                  \* locals of localized_min_path
    tsp                   \* locals and outcome of run_tsp_algorithm

vars == <<map_x, map_y, map, product_info, starting_position, ending_position,
          maximum_routing_time, bnb_access_type, order_list, order, graph, alarm, pc,
          dj, bld, bnb, nn, lmp, tsp>>

---------------------------------------------------------------------------
(* Bounds of the model *)

GridW == 3
GridH == 3
MaxBlocked == 2

---------------------------------------------------------------------------
(* Program constants *)

\* float('inf'); arithmetic on it saturates (Plus, Minus below)
INFINITY == 1000000
\* Python's None where a number or a position is expected
None == -1
NoDir == "None"
ITEM_SYMBOL == "I"
WORKER_START_SYMBOL == "S"
WORKER_END_SYMBOL == "E"

Plus(a, b) == IF a >= INFINITY \/ b >= INFINITY THEN INFINITY ELSE a + b
Minus(a, b) == IF a >= INFINITY THEN INFINITY ELSE a - b
Abs(a) == IF a < 0 THEN 0 - a ELSE a

CellsOf(mx, my) == (0 .. mx - 1) \X (0 .. my - 1)
NoPos == <<None, None>>

RECURSIVE SeqToSet(_)
SeqToSet(s) == IF s = << >> THEN {} ELSE {Head(s)} \cup SeqToSet(Tail(s))

\* generate_map: S and E markers first, then the items overwrite
generate_map(mx, my, start, end, positions) ==
    [x \in 0 .. mx - 1 |-> [y \in 0 .. my - 1 |->
        IF <<x, y>> \in positions THEN ITEM_SYMBOL
        ELSE IF <<x, y>> = start THEN WORKER_START_SYMBOL
        ELSE IF <<x, y>> = end THEN WORKER_END_SYMBOL
        ELSE "_"]]

---------------------------------------------------------------------------
(* dijkstra *)

\* the fields of self read by dijkstra and build_graph_for_order
Me(mx, my, grid, info, sp, ep) ==
    [map_x |-> mx, map_y |-> my, map |-> grid, product_info |-> info,
     starting_position |-> sp, ending_position |-> ep]

dj_is_valid_position(me, x, y) == 0 <= x /\ x < me.map_x /\ 0 <= y /\ y < me.map_y

\* a neighbour list that repeats east and never looks west
DjOffsetsNoWest == << <<0, 1>>, <<0, -1>>, <<1, 0>>, <<1, 0>> >>

\* the neighbour offsets in the order of the for loop
DjOffsets == << <<0, 1>>, <<0, -1>>, <<1, 0>>, <<-1, 0>> >>

\* tuple order of heapq on (cost, (x, y))
HeapLess(a, b) ==
    \/ a[1] < b[1]
    \/ a[1] = b[1] /\ a[2][1] < b[2][1]
    \/ a[1] = b[1] /\ a[2][1] = b[2][1] /\ a[2][2] < b[2][2]

\* a pop that takes the entry pushed last instead of the smallest one
HeapLastIndex(pq) == Len(pq)

\* heapq.heappop: the index of the smallest entry
HeapMinIndex(pq) ==
    CHOOSE i \in DOMAIN pq :
        \A j \in DOMAIN pq : j # i => (HeapLess(pq[i], pq[j]) \/ (pq[i] = pq[j] /\ i < j))

RemoveAt(s, i) == SubSeq(s, 1, i - 1) \o SubSeq(s, i + 1, Len(s))

\* state of a call before the while loop; target checked by the caller below
DjStart(me, start, target) ==
    [start |-> start, target |-> target,
     dist |-> [c \in CellsOf(me.map_x, me.map_y) |-> IF c = start THEN 0 ELSE INFINITY],
     pq |-> << <<0, start>> >>,
     prev |-> [c \in CellsOf(me.map_x, me.map_y) |-> NoPos],
     position |-> NoPos, total_cost |-> 0,
     at |-> "loop", path |-> << >>, cost |-> None]

\* relaxation of the neighbours of position, one offset after the other
RECURSIVE DjRelax(_, _, _, _, _, _)
DjRelax(me, grid, s, position, cost, k) ==
    IF k > Len(DjOffsets) THEN s
    ELSE LET x == position[1] + DjOffsets[k][1]
             y == position[2] + DjOffsets[k][2]
             neighbor_cost == cost + 1
         IN  IF ~dj_is_valid_position(me, x, y)
             THEN DjRelax(me, grid, s, position, cost, k + 1)
             ELSE IF grid[x][y] = ITEM_SYMBOL
             THEN DjRelax(me, grid, s, position, cost, k + 1)
             ELSE IF neighbor_cost < s.dist[<<x, y>>]
                  THEN DjRelax(me, grid,
                               [s EXCEPT !.dist[<<x, y>>] = neighbor_cost,
                                         !.prev[<<x, y>>] = position,
                                         !.pq = Append(@, <<neighbor_cost, <<x, y>>>>)],
                               position, cost, k + 1)
                  ELSE DjRelax(me, grid, s, position, cost, k + 1)

\* one iteration of `while pq`
DjIterate(me, grid, s) ==
    LET i == HeapMinIndex(s.pq)
        cost == s.pq[i][1]
        position == s.pq[i][2]
        popped == [s EXCEPT !.pq = RemoveAt(@, i), !.position = position]
    IN  IF position = s.target
        THEN [popped EXCEPT !.total_cost = cost, !.at = "reconstruct"]
        ELSE LET r == DjRelax(me, grid, popped, position, cost, 1)
             IN  IF r.pq = << >> THEN [r EXCEPT !.at = "reconstruct"] ELSE r

\* backtracking over prev, then path.reverse()
RECURSIVE DjBacktrack(_, _, _)
DjBacktrack(s, position, acc) ==
    IF position = s.start THEN <<s.start>> \o acc
    ELSE DjBacktrack(s, s.prev[position], <<position>> \o acc)

DjReconstruct(s) ==
    LET path == DjBacktrack(s, s.position, << >>)
    IN  IF s.target \in SeqToSet(path)
        THEN [s EXCEPT !.at = "done", !.path = path, !.cost = s.total_cost]
        ELSE [s EXCEPT !.at = "done", !.path = << >>, !.cost = None]

\* the call up to the first loop iteration: the bounds test on target
DjEnter(me, start, target) ==
    IF ~dj_is_valid_position(me, target[1], target[2])
    THEN [DjStart(me, start, target) EXCEPT !.at = "done", !.pq = << >>]
    ELSE DjStart(me, start, target)

RECURSIVE DjRun(_, _, _)
DjRun(me, grid, s) ==
    IF s.at = "loop" THEN DjRun(me, grid, DjIterate(me, grid, s))
    ELSE IF s.at = "reconstruct" THEN DjReconstruct(s)
    ELSE s

\* dijkstra(grid, start, target) -> [path, cost]
dijkstra(me, grid, start, target) ==
    LET r == DjRun(me, grid, DjEnter(me, start, target))
    IN  [path |-> r.path, cost |-> r.cost]

---------------------------------------------------------------------------
(* collapse_directions *)

CdStart == [result |-> << >>, prev |-> NoPos, prev_dir |-> NoDir, direction |-> NoDir]

\* one iteration of `for position in positions`
CdIterate(c, position, skip_duplicate) ==
    IF c.prev[1] = None
    THEN [c EXCEPT !.result = Append(@, position), !.prev = position]
    ELSE LET direction ==
                 IF c.prev[1] # position[1]
                 THEN (IF c.prev[1] > position[1] THEN "x+" ELSE "x-")
                 ELSE IF c.prev[2] # position[2]
                 THEN (IF c.prev[2] > position[2] THEN "y+" ELSE "y-")
                 ELSE c.direction
             d == [c EXCEPT !.direction = direction]
         IN  IF skip_duplicate /\ c.prev_dir = NoDir
             THEN [d EXCEPT !.prev_dir = direction, !.prev = position]
             ELSE IF c.prev_dir # direction
             THEN [d EXCEPT !.prev_dir = direction, !.result = Append(@, c.prev),
                            !.prev = position]
             ELSE [d EXCEPT !.prev = position]

RECURSIVE CdLoop(_, _, _, _)
CdLoop(c, positions, k, skip_duplicate) ==
    IF k > Len(positions) THEN c
    ELSE CdLoop(CdIterate(c, positions[k], skip_duplicate), positions, k + 1, skip_duplicate)

\* a collapse that forgets the closing `result.append(positions[-1])`
CollapseNoLast(positions) ==
    IF positions = << >> THEN [exc |-> "IndexError", result |-> << >>]
    ELSE [exc |-> "none", result |-> CdLoop(CdStart, positions, 1, TRUE).result]

\* collapse_directions(positions): positions[-1] raises IndexError on an empty list
collapse_directions(positions) ==
    IF positions = << >> THEN [exc |-> "IndexError", result |-> << >>]
    ELSE [exc |-> "none",
          result |-> Append(CdLoop(CdStart, positions, 1, TRUE).result,
                            positions[Len(positions)])]

---------------------------------------------------------------------------
(* Insertion-ordered dicts: sequences of [key, val] *)

RECURSIVE DictIndex(_, _, _)
DictIndex(d, key, i) ==
    IF i > Len(d) THEN 0
    ELSE IF d[i].key = key THEN i
    ELSE DictIndex(d, key, i + 1)

DictHas(d, key) == DictIndex(d, key, 1) # 0
DictGet(d, key) == d[DictIndex(d, key, 1)].val
\* d[key] = val: a present key keeps its place
DictSet(d, key, val) ==
    LET i == DictIndex(d, key, 1)
    IN  IF i = 0 THEN Append(d, [key |-> key, val |-> val])
        ELSE [d EXCEPT ![i].val = val]

---------------------------------------------------------------------------
(* build_graph_for_order *)

DirNames == <<"N", "S", "E", "W">>
DirDx == <<0, 0, 1, -1>>
DirDy == <<1, -1, 0, 0>>

\* Python list indexing: grid[x] with -len <= x < len, negative indexes wrap
PyIndexOk(x, n) == (0 - n) <= x /\ x < n
PyIndex(x, n) == IF x < 0 THEN x + n ELSE x

\* is_valid_position of build_graph_for_order: self.map[x][y] is read whether
\* or not (x, y) is in bounds
bld_is_valid_position(me, x, y) ==
    LET is_in_bounds == 0 <= x /\ x < me.map_x /\ 0 <= y /\ y < me.map_y
    IN  IF ~PyIndexOk(x, me.map_x) \/ ~PyIndexOk(y, me.map_y) THEN "IndexError"
        ELSE IF is_in_bounds
                /\ me.map[PyIndex(x, me.map_x)][PyIndex(y, me.map_y)] # ITEM_SYMBOL
        THEN "True"
        ELSE "False"

\* the graph before the loops: the End -> Start edge of cost 0
BldGraph0(me) ==
    << [key |-> <<"End", "Start", NoDir>>,
        val |-> << [key |-> NoDir,
                    val |-> [location |-> me.ending_position, cost |-> 0,
                             path |-> <<me.ending_position, me.starting_position>>]] >>] >>

BldStart(me, product_ids) ==
    [product_ids |-> product_ids, i |-> 1, j |-> 1, sd |-> 1, ed |-> 1,
     valid_directions |-> << >>, graph |-> BldGraph0(me),
     at |-> IF product_ids = << >> THEN "done" ELSE "pair", exc |-> "none"]

BldSkipPair(start, end) ==
    \/ start = end
    \/ start = "End"
    \/ end = "Start"
    \/ (start = "Start" /\ end = "End")

\* the end of one end_dir iteration: next end_dir, or store the key and go on
\* to the next start_dir, or to the next pair
BldAdvance(s, vd) ==
    IF s.ed < 4 THEN [s EXCEPT !.ed = s.ed + 1, !.valid_directions = vd]
    ELSE LET start == s.product_ids[s.i]
             end == s.product_ids[s.j]
             start_dir == IF start = "Start" THEN NoDir ELSE DirNames[s.sd]
             g == IF vd # << >> THEN DictSet(s.graph, <<start, end, start_dir>>, vd)
                  ELSE s.graph
             t == [s EXCEPT !.graph = g, !.valid_directions = << >>, !.ed = 1]
         IN  IF s.sd < 4 THEN [t EXCEPT !.sd = s.sd + 1]
             ELSE IF s.j < Len(s.product_ids)
             THEN [t EXCEPT !.sd = 1, !.j = s.j + 1, !.at = "pair"]
             ELSE IF s.i < Len(s.product_ids)
             THEN [t EXCEPT !.sd = 1, !.j = 1, !.i = s.i + 1, !.at = "pair"]
             ELSE [t EXCEPT !.at = "done"]

\* the head of the pair loops: skip an invalid pair or enter the direction loops
BldPair(s) ==
    IF BldSkipPair(s.product_ids[s.i], s.product_ids[s.j])
    THEN IF s.j < Len(s.product_ids) THEN [s EXCEPT !.j = s.j + 1]
         ELSE IF s.i < Len(s.product_ids) THEN [s EXCEPT !.j = 1, !.i = s.i + 1]
         ELSE [s EXCEPT !.at = "done"]
    ELSE [s EXCEPT !.at = "dirs", !.sd = 1, !.ed = 1, !.valid_directions = << >>]

\* one iteration of `for end_dir, (dx, dy) in directions.items()`
BldDirection(me, s) ==
    LET start == s.product_ids[s.i]
        end == s.product_ids[s.j]
        start_dir == IF start = "Start" THEN NoDir ELSE DirNames[s.sd]
        end_dir == IF end = "End" THEN NoDir ELSE DirNames[s.ed]
        x == IF end = "End" THEN me.ending_position[1]
             ELSE me.product_info[end][1] + DirDx[s.ed]
        y == IF end = "End" THEN me.ending_position[2]
             ELSE me.product_info[end][2] + DirDy[s.ed]
        target_ok == bld_is_valid_position(me, x, y)
        start_x == IF start = "Start" THEN me.starting_position[1]
                   ELSE me.product_info[start][1] + DirDx[s.sd]
        start_y == IF start = "Start" THEN me.starting_position[2]
                   ELSE me.product_info[start][2] + DirDy[s.sd]
        start_ok == IF start = "Start" THEN "True"
                    ELSE bld_is_valid_position(me, start_x, start_y)
        found == dijkstra(me, me.map, <<start_x, start_y>>, <<x, y>>)
        updated_path == collapse_directions(found.path)
    IN  IF target_ok = "IndexError" THEN [s EXCEPT !.at = "raised", !.exc = "IndexError"]
        ELSE IF target_ok = "False" THEN BldAdvance(s, s.valid_directions)
        ELSE IF start_ok = "IndexError" THEN [s EXCEPT !.at = "raised", !.exc = "IndexError"]
        ELSE IF start_ok = "False" THEN BldAdvance(s, s.valid_directions)
        ELSE IF updated_path.exc # "none"
        THEN [s EXCEPT !.at = "raised", !.exc = updated_path.exc]
        ELSE BldAdvance(s, DictSet(s.valid_directions, end_dir,
                                   [location |-> <<x, y>>, cost |-> found.cost,
                                    path |-> updated_path.result]))

BldStep(me, s) == IF s.at = "pair" THEN BldPair(s) ELSE BldDirection(me, s)

RECURSIVE BldRun(_, _)
BldRun(me, s) == IF s.at \in {"done", "raised"} THEN s ELSE BldRun(me, BldStep(me, s))

\* build_graph_for_order(product_ids) -> [exc, graph]
build_graph_for_order(me, product_ids) ==
    LET r == BldRun(me, BldStart(me, product_ids))
    IN  [exc |-> r.exc, graph |-> r.graph]

\* `for product_id in product_ids` of process_order: shelves is the dict
\* location -> product ids, in the order the locations were first met
RECURSIVE PoShelves(_, _, _, _)
PoShelves(me, product_ids, k, shelves) ==
    IF k > Len(product_ids) THEN shelves
    ELSE IF product_ids[k] \notin DOMAIN me.product_info
    THEN PoShelves(me, product_ids, k + 1, shelves)
    ELSE LET location == me.product_info[product_ids[k]]
             shelf == IF DictHas(shelves, location) THEN DictGet(shelves, location)
                      ELSE << >>
         IN  PoShelves(me, product_ids, k + 1,
                       DictSet(shelves, location, Append(shelf, product_ids[k])))

\* `for shelf in shelves: grouped_items += shelves[shelf]`
RECURSIVE PoGrouped(_, _)
PoGrouped(shelves, k) ==
    IF k > Len(shelves) THEN << >> ELSE shelves[k].val \o PoGrouped(shelves, k + 1)

process_order(me, product_ids) ==
    <<"Start">> \o PoGrouped(PoShelves(me, product_ids, 1, << >>), 1) \o <<"End">>

---------------------------------------------------------------------------
(* matrix_reduction *)

\* `INFINITY if cost is None else cost`
CostOrInf(cost) == IF cost = None THEN INFINITY ELSE cost

MinOf(S) == IF S = {} THEN INFINITY ELSE CHOOSE a \in S : \A b \in S : a <= b

\* every cost of one dict of access points replaced by f(cost)
ApsSetAll(aps, c) == [d \in DOMAIN aps |-> [aps[d] EXCEPT !.val.cost = c]]
ApsSubtract(aps, c) ==
    [d \in DOMAIN aps |->
        [aps[d] EXCEPT !.val.cost =
            IF aps[d].val.cost = None \/ aps[d].val.cost = INFINITY THEN INFINITY
            ELSE aps[d].val.cost - c]]
ApsCosts(aps) == {CostOrInf(aps[d].val.cost) : d \in DOMAIN aps}

\* a commit that leaves the columns of the destination node as they are
MrCommitRowsOnly(m, source) ==
    [i \in DOMAIN m |->
        IF source[1] = m[i].key[1]
        THEN [m[i] EXCEPT !.val = ApsSetAll(@, INFINITY)]
        ELSE m[i]]

\* `if source:` the rows of the source node and the columns of the
\* destination node are set to infinity
MrCommit(m, source) ==
    [i \in DOMAIN m |->
        IF source[1] = m[i].key[1] \/ source[2] = m[i].key[2]
        THEN [m[i] EXCEPT !.val = ApsSetAll(@, INFINITY)]
        ELSE m[i]]

\* one iteration of `for key in temp_matrix.keys()`
MrReduceKey(r, key) ==
    LET m == r.matrix
        row == {i \in DOMAIN m : key[1] = m[i].key[1]}
        col == {i \in DOMAIN m : key[1] # m[i].key[1] /\ m[i].key[2] = "End"}
        row_min == MinOf(UNION {ApsCosts(m[i].val) : i \in row})
        col_min == MinOf(UNION {ApsCosts(m[i].val) : i \in col})
        row_cost == IF row_min = INFINITY THEN 0 ELSE row_min
        zero_col_cost == IF col_min = INFINITY THEN 0 ELSE col_min
    IN  [reduction_cost |-> r.reduction_cost + row_cost + zero_col_cost,
         matrix |-> [i \in DOMAIN m |->
                        IF i \in row THEN [m[i] EXCEPT !.val = ApsSubtract(@, row_cost)]
                        ELSE IF i \in col
                        THEN [m[i] EXCEPT !.val = ApsSubtract(@, zero_col_cost)]
                        ELSE m[i]]]

RECURSIVE MrLoop(_, _)
MrLoop(r, k) ==
    IF k > Len(r.matrix) THEN r
    ELSE MrLoop(MrReduceKey(r, r.matrix[k].key), k + 1)

NoSource == << >>

\* matrix_reduction(matrix, source, dest) -> [reduction_cost, matrix];
\* dest is not read by the code
matrix_reduction(matrix, source, dest) ==
    MrLoop([reduction_cost |-> 0,
            matrix |-> IF source # NoSource THEN MrCommit(matrix, source) ELSE matrix], 1)

\* `temp_matrix = matrix`: the reduction writes to the object it was given
MrTempShared(objects, matrix) == matrix

\* `temp_matrix = deepcopy(matrix)`: the object that matrix_reduction writes
\* to is a new one; objects is the sequence of the matrix objects that exist
\* and a matrix is referred to by its place in it
MrTemp(objects, matrix) == Len(objects) + 1

\* deepcopy(objects[matrix]) -> [objects, ref]
ObjCopy(objects, matrix) ==
    [objects |-> Append(objects, objects[matrix]), ref |-> Len(objects) + 1]

\* matrix_reduction on the object `matrix` -> [objects, ref]: the writes
\* of lines 870-928 go to temp_matrix, which is returned
ObjReduce(objects, matrix, source) ==
    LET temp == MrTemp(objects, matrix)
        copied == IF temp > Len(objects) THEN Append(objects, objects[matrix]) ELSE objects
    IN  [objects |-> [copied EXCEPT ![temp] =
                         matrix_reduction(objects[matrix], source, None).matrix],
         ref |-> temp]

---------------------------------------------------------------------------
(* branch_and_bound *)

SINGLE_ACCESS == "Single Access"
MULTI_ACCESS == "Multi Access"

\* binary_search(arr, low, high, target) on the cost field of the queue
RECURSIVE binary_search(_, _, _, _)
binary_search(arr, low, high, target) ==
    IF high >= low
    THEN LET mid == (high + low) \div 2
         IN  IF arr[mid + 1].cost = target THEN mid
             ELSE IF arr[mid + 1].cost > target
             THEN binary_search(arr, low, mid - 1, target)
             ELSE binary_search(arr, mid + 1, high, target)
    ELSE -1

\* list.insert(index, x) with Python's treatment of negative indexes
PyInsert(s, index, x) ==
    LET n == Len(s)
        at == IF index < 0 THEN (IF index + n < 0 THEN 0 ELSE index + n)
              ELSE IF index > n THEN n ELSE index
    IN  SubSeq(s, 1, at) \o <<x>> \o SubSeq(s, at + 1, n)

QueueInsert(queue, node) ==
    PyInsert(queue, binary_search(queue, 0, Len(queue) - 1, node.cost), node)

\* "Get lowest cost node": lowest_cost_node is never lowered, so the index is
\* that of the last queued state of finite cost
RECURSIVE PopIndexFrom(_, _, _)
PopIndexFrom(queue, i, index) ==
    IF i > Len(queue) THEN index
    ELSE PopIndexFrom(queue, i + 1, IF queue[i].cost < INFINITY THEN i - 1 ELSE index)

PopIndex(queue) == IF Len(queue) > 1 THEN PopIndexFrom(queue, 1, 0) ELSE 0

\* a test of `dest == node[0]` that finds no node
PathNodesNone(path) == {}

PathNodes(path) == {path[i][1] : i \in DOMAIN path}

\* the seeds: one queued state per key leaving start_node
RECURSIVE BnbSeed(_, _, _, _, _)
BnbSeed(parent_matrix, start_node, reduced_cost, k, queue) ==
    IF k > Len(parent_matrix) THEN queue
    ELSE LET key == parent_matrix[k].key
         IN  BnbSeed(parent_matrix, start_node, reduced_cost, k + 1,
                     IF start_node = key[1]
                     THEN Append(queue,
                                 [source |-> key[1], source_direction |-> key[3],
                                  cost |-> reduced_cost, matrix |-> parent_matrix,
                                  path |-> << <<key[1], key[3]>> >>])
                     ELSE queue)

\* the body of `for direc in access_points` for one direction; e carries the
\* locals of the expansion (queue, cache, total_reduction, chosen_*, child_path)
BnbDirection(e, access_type, node, entry, d) ==
    LET ap == entry.val[d]
        direc == ap.key
        dest == entry.key[2]
        ckey == <<node.path, dest>>
        hit == DictHas(e.cached_matrices, ckey)
        red == IF hit THEN DictGet(e.cached_matrices, ckey)
               ELSE matrix_reduction(node.matrix, entry.key, direc)
        cache == IF hit THEN e.cached_matrices ELSE DictSet(e.cached_matrices, ckey, red)
        total_reduction == Plus(Plus(node.cost, ap.val.cost), red.reduction_cost)
        child_path == Append(node.path, <<dest, direc>>)
        f == [e EXCEPT !.cached_matrices = cache, !.total_reduction = total_reduction]
    IN  IF ap.val.cost = None \/ ap.val.cost = INFINITY THEN e
        ELSE IF access_type = SINGLE_ACCESS
        THEN IF e.chosen_start = NoDir \/ total_reduction < e.highest_reduction
             THEN [f EXCEPT !.chosen_start = dest, !.chosen_direc = direc,
                            !.highest_reduction = total_reduction,
                            !.chosen_matrix = red.matrix, !.child_path = child_path]
             ELSE f
        ELSE IF access_type = MULTI_ACCESS
        THEN IF total_reduction <= e.minimum_cost
             THEN [f EXCEPT !.child_path = child_path,
                            !.queue = QueueInsert(@,
                                [source |-> dest, source_direction |-> direc,
                                 cost |-> total_reduction, matrix |-> red.matrix,
                                 path |-> child_path])]
             ELSE [f EXCEPT !.child_path = child_path]
        ELSE f

RECURSIVE BnbDirections(_, _, _, _, _)
BnbDirections(e, access_type, node, entry, d) ==
    IF d > Len(entry.val) THEN e
    ELSE BnbDirections(BnbDirection(e, access_type, node, entry, d),
                       access_type, node, entry, d + 1)

\* the body of `for (start, dest, src_dir), access_points in matrix.items()`
BnbEntry(e, access_type, node, entry) ==
    IF ~(node.source = entry.key[1] /\ node.source_direction = entry.key[3]) THEN e
    ELSE IF entry.key[2] \in PathNodes(node.path) THEN e
    ELSE LET e0 == IF access_type = SINGLE_ACCESS
                   THEN [e EXCEPT !.child_path = << >>, !.highest_reduction = INFINITY,
                                  !.chosen_start = NoDir, !.chosen_direc = NoDir,
                                  !.chosen_matrix = << >>]
                   ELSE [e EXCEPT !.child_path = << >>]
             e1 == BnbDirections(e0, access_type, node, entry, 1)
         IN  IF access_type = SINGLE_ACCESS /\ e1.child_path # << >>
                /\ e1.total_reduction <= e1.minimum_cost
             THEN [e1 EXCEPT !.queue = QueueInsert(@,
                        [source |-> e1.chosen_start, source_direction |-> e1.chosen_direc,
                         cost |-> e1.total_reduction, matrix |-> e1.chosen_matrix,
                         path |-> e1.child_path])]
             ELSE e1

RECURSIVE BnbExpand(_, _, _, _)
BnbExpand(e, access_type, node, k) ==
    IF k > Len(node.matrix) THEN e
    ELSE BnbExpand(BnbEntry(e, access_type, node, node.matrix[k]), access_type, node, k + 1)

\* the frame after `signal.alarm(...)`, before `queue = []` and `try:`
BnbEnter(start_node) ==
    [at |-> "setup", start_node |-> start_node, queue |-> << >>, final_path |-> << >>,
     minimum_cost |-> INFINITY, cached_matrices |-> << >>,
     pending |-> None, result |-> << >>]

\* steps 1 to 5 inside `try:`: the first reduction and the seeding of the queue
BnbInit(g, b) ==
    LET red == matrix_reduction(g, NoSource, None)
        queue == BnbSeed(red.matrix, b.start_node, red.reduction_cost, 1, << >>)
    IN  [b EXCEPT !.at = IF queue = << >> THEN "return" ELSE "loop",
                  !.queue = queue, !.minimum_cost = INFINITY, !.cached_matrices = << >>]

BnbLocals(b, queue) ==
    [queue |-> queue, cached_matrices |-> b.cached_matrices, minimum_cost |-> b.minimum_cost,
     total_reduction |-> None, highest_reduction |-> INFINITY, chosen_start |-> NoDir,
     chosen_direc |-> NoDir, chosen_matrix |-> << >>, child_path |-> << >>]

\* the expansion loop of one iteration and the loop test that follows it
BnbChildren(b, access_type, node, queue) ==
    LET e == BnbExpand(BnbLocals(b, queue), access_type, node, 1)
    IN  [b EXCEPT !.queue = e.queue, !.cached_matrices = e.cached_matrices,
                  !.at = IF e.queue = << >> THEN "return" ELSE "loop"]

\* one iteration of `while queue`, up to `final_path = src_path` when the
\* popped state is a complete tour that improves on the best one
BnbIterate(b, access_type, ord) ==
    LET index == PopIndex(b.queue)
        node == b.queue[index + 1]
        queue == RemoveAt(b.queue, index + 1)
        closing == <<node.source, node.path[1][1], node.source_direction>>
        final_dir == node.path[1][2]
        has_edge == /\ DictHas(node.matrix, closing)
                    /\ DictHas(DictGet(node.matrix, closing), final_dir)
        path_cost == DictGet(DictGet(node.matrix, closing), final_dir).cost
        final_reduction == matrix_reduction(node.matrix, NoSource, None).reduction_cost
        total_final_reduction == Plus(Plus(node.cost, path_cost), final_reduction)
    IN  IF node.cost > b.minimum_cost
        THEN [b EXCEPT !.queue = queue, !.at = IF queue = << >> THEN "return" ELSE "loop"]
        ELSE IF Len(node.path) = Len(ord)
        THEN IF ~has_edge
             THEN [b EXCEPT !.queue = queue, !.at = "raised", !.result = <<"KeyError">>]
             ELSE IF total_final_reduction <= b.minimum_cost
             THEN [b EXCEPT !.queue = queue, !.final_path = node.path, !.at = "record",
                            !.pending = [node |-> node, total |-> total_final_reduction]]
             ELSE BnbChildren(b, access_type, node, queue)
        ELSE BnbChildren(b, access_type, node, queue)

\* `minimum_cost = total_final_reduction` and the rest of that iteration
BnbRecord(b, access_type) ==
    BnbChildren([b EXCEPT !.minimum_cost = b.pending.total, !.pending = None],
                access_type, b.pending.node, b.queue)

\* the order list handed back as a path: its elements are not (node, direction) pairs
OrderAsPath(ord) == [i \in DOMAIN ord |-> <<ord[i]>>]

\* `return minimum_cost, final_path` after the loop
BnbReturn(b) == [cost |-> b.minimum_cost, path |-> b.final_path]

\* the `except TimeoutError` handler
BnbOnTimeout(b, ord) ==
    IF b.final_path # << >> THEN [cost |-> b.minimum_cost, path |-> b.final_path]
    ELSE [cost |-> None, path |-> OrderAsPath(ord)]

\* a call that the alarm does not interrupt, run to its end
RECURSIVE BnbRun(_, _, _, _)
BnbRun(b, access_type, g, ord) ==
    IF b.at = "setup" THEN BnbRun(BnbInit(g, b), access_type, g, ord)
    ELSE IF b.at = "loop" THEN BnbRun(BnbIterate(b, access_type, ord), access_type, g, ord)
    ELSE IF b.at = "record" THEN BnbRun(BnbRecord(b, access_type), access_type, g, ord)
    ELSE b

\* branch_and_bound(graph, order) for one outcome of random.choice -> [exc, cost, path]
branch_and_bound(g, ord, start_node, access_type) ==
    LET b == BnbRun(BnbEnter(start_node), access_type, g, ord)
    IN  IF b.at = "raised" THEN [exc |-> b.result[1], cost |-> None, path |-> << >>]
        ELSE [exc |-> "none", cost |-> BnbReturn(b).cost, path |-> BnbReturn(b).path]

---------------------------------------------------------------------------
(* nearest_neighbor *)

\* a None appended to the walk
NoNode == << >>
\* a None where a list of (node, direction) pairs is expected
NonePath == << <<"None">> >>

RECURSIVE RemoveFirst(_, _)
\* list.remove(x)
RemoveFirst(s, x) ==
    IF s = << >> THEN << >>
    ELSE IF Head(s) = x THEN Tail(s)
    ELSE <<Head(s)>> \o RemoveFirst(Tail(s), x)

\* the locals of one walk, at the top of `for key in graph.keys()`
NnBeginWalk(f, g, ord, k) ==
    [f EXCEPT !.at = "walk", !.k = k, !.first_time_thru = TRUE,
              !.queue = << <<g[k].key[1], g[k].key[3]>> >>,
              !.item_list = ord, !.total_cost = 0]

\* the frame after `signal.alarm(...)`, at the first key
NnEnter(g, ord) ==
    NnBeginWalk([at |-> "walk", k |-> 1, first_time_thru |-> TRUE, queue |-> << >>,
                 item_list |-> << >>, total_cost |-> 0, final_path |-> NonePath,
                 final_cost |-> INFINITY, result |-> << >>], g, ord, 1)

\* `for direc in values`: the cheapest access point of one entry, kept only if
\* it beats best; best is [cost, node]
RECURSIVE NnDirections(_, _, _, _)
NnDirections(aps, dest_node, d, best) ==
    IF d > Len(aps) THEN best
    ELSE NnDirections(aps, dest_node, d + 1,
            IF aps[d].val.cost = None THEN best
            ELSE IF best.cost > aps[d].val.cost
            THEN [cost |-> aps[d].val.cost, node |-> <<dest_node, aps[d].key>>]
            ELSE best)

\* `for (curr_node, dest_node, curr_dir), values in graph.items()`
RECURSIVE NnScan(_, _, _, _, _)
NnScan(g, popped, item_list, k, acc) ==
    IF k > Len(g) THEN acc
    ELSE LET key == g[k].key
             here == popped[1] = key[1] /\ popped[2] = key[3]
         IN  NnScan(g, popped, item_list, k + 1,
                IF here /\ key[2] \in SeqToSet(item_list)
                THEN [acc EXCEPT !.unvisited = NnDirections(g[k].val, key[2], 1, @)]
                ELSE IF here
                THEN [acc EXCEPT !.visited = NnDirections(g[k].val, key[2], 1, @)]
                ELSE acc)

\* one iteration of `while item_list`
NnWalk(f, g) ==
    LET popped == f.queue[Len(f.queue)]
        queue == IF f.first_time_thru THEN SubSeq(f.queue, 1, Len(f.queue) - 1) ELSE f.queue
        found == NnScan(g, popped, f.item_list, 1,
                        [unvisited |-> [cost |-> INFINITY, node |-> NoNode],
                         visited |-> [cost |-> INFINITY, node |-> NoNode]])
        next_node == found.unvisited.node
        item_list == IF next_node # NoNode /\ next_node[1] \in SeqToSet(f.item_list)
                     THEN RemoveFirst(f.item_list, next_node[1])
                     ELSE f.item_list
    IN  IF popped = NoNode
        THEN [f EXCEPT !.at = "raised", !.result = <<"TypeError">>]
        ELSE [f EXCEPT !.first_time_thru = FALSE,
                       !.queue = Append(queue, IF next_node # NoNode THEN next_node
                                               ELSE found.visited.node),
                       !.total_cost = Plus(@, IF next_node # NoNode THEN found.unvisited.cost
                                              ELSE found.visited.cost),
                       !.item_list = item_list,
                       !.at = IF item_list = << >> THEN "close" ELSE "walk"]

\* the cost of the last edge, `final_path = queue.copy()`, `final_cost = total_cost`
\* and the step to the next key
NnClose(f, g, ord) ==
    LET last_node == f.queue[Len(f.queue)]
        beginning_node == f.queue[1]
        to == IF beginning_node[1] # "Start" THEN beginning_node[1] ELSE "End"
        closing == <<last_node[1], to, last_node[2]>>
        looked_up == beginning_node[1] # "Start" \/ last_node[1] # "End"
        has_edge == /\ DictHas(g, closing)
                    /\ DictHas(DictGet(g, closing), beginning_node[2])
        edge_cost == DictGet(DictGet(g, closing), beginning_node[2]).cost
        total_cost == IF looked_up THEN Plus(f.total_cost, CostOrInf(edge_cost)) ELSE INFINITY
        better == f.final_cost > total_cost
        h == [f EXCEPT !.total_cost = total_cost,
                       !.final_path = IF better THEN f.queue ELSE @,
                       !.final_cost = IF better THEN total_cost ELSE @]
    IN  IF last_node = NoNode \/ beginning_node = NoNode
        THEN [f EXCEPT !.at = "raised", !.result = <<"TypeError">>]
        ELSE IF looked_up /\ ~has_edge
        THEN [f EXCEPT !.at = "raised", !.result = <<"KeyError">>]
        ELSE IF f.k < Len(g) THEN NnBeginWalk(h, g, ord, f.k + 1)
        ELSE [h EXCEPT !.at = "return"]

\* `return final_cost, final_path` after the loop
NnReturn(f) == [cost |-> f.final_cost, path |-> f.final_path]

\* a call that the alarm does not interrupt, followed until it ends or until a
\* walk has grown by limit entries beyond the order
RECURSIVE NnRun(_, _, _, _)
NnRun(f, g, ord, limit) ==
    IF f.at = "walk"
    THEN IF Len(f.queue) >= Len(ord) + limit THEN [f EXCEPT !.at = "endless"]
         ELSE NnRun(NnWalk(f, g), g, ord, limit)
    ELSE IF f.at = "close" THEN NnRun(NnClose(f, g, ord), g, ord, limit)
    ELSE f

\* nearest_neighbor(graph, order) -> [exc, cost, path]
nearest_neighbor(g, ord, limit) ==
    LET f == NnRun(NnEnter(g, ord), g, ord, limit)
    IN  IF f.at = "raised" THEN [exc |-> f.result[1], cost |-> None, path |-> << >>]
        ELSE IF f.at = "endless" THEN [exc |-> "endless", cost |-> None, path |-> << >>]
        ELSE [exc |-> "none", cost |-> NnReturn(f).cost, path |-> NnReturn(f).path]

\* the `except TimeoutError` handler reads `path`, a name nearest_neighbor
\* never binds: NameError
NnOnTimeout(f, ord) == <<"NameError">>

---------------------------------------------------------------------------
(* localized_min_path *)

\* the frame at the top of `try:`, path and total_cost bound
LmpEnter(ord) ==
    [at |-> "sort", k |-> 1, path |-> << >>, total_cost |-> 0, sorted_order |-> << >>,
     pre_node |-> NoDir, access_direction |-> NoDir, result |-> << >>]

\* the minimum cost over the directions of graph[('Start', product_id, None)]
RECURSIVE LmpNodeMin(_, _, _)
LmpNodeMin(aps, d, best) ==
    IF d > Len(aps) THEN best
    ELSE IF aps[d].val.cost = None THEN best
    ELSE LmpNodeMin(aps, d + 1, IF aps[d].val.cost < best THEN aps[d].val.cost ELSE best)

LmpStartKey(product_id) == <<"Start", product_id, NoDir>>

\* `for i in range(n)`: the first index whose node costs more, else -1
RECURSIVE LmpInsertIndex(_, _, _, _)
LmpInsertIndex(g, sorted_order, node_minimum_cost, i) ==
    IF i >= Len(sorted_order) THEN -1
    ELSE IF node_minimum_cost
              < LmpNodeMin(DictGet(g, LmpStartKey(sorted_order[i + 1])), 1, INFINITY)
    THEN i
    ELSE LmpInsertIndex(g, sorted_order, node_minimum_cost, i + 1)

\* one iteration of `for product_id in order` of the pre-ordering
LmpSort(f, g, ord) ==
    LET product_id == ord[f.k]
        threading == [f EXCEPT !.at = "thread", !.k = 1,
                               !.sorted_order = <<"Start">> \o @ \o <<"End">>]
        node_minimum_cost == LmpNodeMin(DictGet(g, LmpStartKey(product_id)), 1, INFINITY)
    IN  IF f.k > Len(ord) THEN threading
        ELSE IF product_id = "Start" THEN [f EXCEPT !.k = f.k + 1]
        ELSE IF product_id = "End" THEN threading
        ELSE IF ~DictHas(g, LmpStartKey(product_id))
        THEN [f EXCEPT !.at = "raised", !.result = <<"KeyError">>]
        ELSE IF f.sorted_order = << >>
        THEN [f EXCEPT !.k = f.k + 1, !.sorted_order = <<product_id>>]
        ELSE [f EXCEPT !.k = f.k + 1,
                       !.sorted_order =
                           PyInsert(@, LmpInsertIndex(g, f.sorted_order, node_minimum_cost, 0),
                                    product_id)]

\* `for access_point, val in graph[...].items()`: c is [min_cost, access_direction, shortest_path]
RECURSIVE LmpChoose(_, _, _, _)
LmpChoose(aps, product_id, d, c) ==
    IF d > Len(aps) THEN c
    ELSE IF aps[d].val.cost = None THEN c
    ELSE LmpChoose(aps, product_id, d + 1,
            IF aps[d].val.cost < c.min_cost
            THEN [min_cost |-> aps[d].val.cost, access_direction |-> aps[d].key,
                  shortest_path |-> << <<product_id, aps[d].key>> >>]
            ELSE c)

\* one iteration of `for product_id in sorted_order`
LmpThread(f, g) ==
    LET product_id == f.sorted_order[f.k]
        key == <<f.pre_node, product_id, f.access_direction>>
        c == LmpChoose(DictGet(g, key), product_id, 1,
                       [min_cost |-> INFINITY, access_direction |-> f.access_direction,
                        shortest_path |-> << >>])
        next_at == IF f.k < Len(f.sorted_order) THEN "thread" ELSE "return"
    IN  IF product_id = "Start"
        THEN [f EXCEPT !.pre_node = product_id, !.access_direction = NoDir,
                       !.path = Append(@, <<"Start", NoDir>>), !.k = f.k + 1, !.at = next_at]
        ELSE IF ~DictHas(g, key)
        THEN [f EXCEPT !.at = "raised", !.result = <<"KeyError">>]
        ELSE [f EXCEPT !.total_cost = IF c.min_cost # INFINITY THEN @ + c.min_cost ELSE @,
                       !.path = @ \o c.shortest_path,
                       !.access_direction = c.access_direction,
                       !.pre_node = product_id, !.k = f.k + 1, !.at = next_at]

\* `return total_cost, path` after the try block
LmpReturn(f) == [cost |-> f.total_cost, path |-> f.path]

RECURSIVE LmpRun(_, _, _)
LmpRun(f, g, ord) ==
    IF f.at = "sort" THEN LmpRun(LmpSort(f, g, ord), g, ord)
    ELSE IF f.at = "thread" THEN LmpRun(LmpThread(f, g), g, ord)
    ELSE f

\* localized_min_path(graph, order) -> [exc, cost, path]
localized_min_path(g, ord) ==
    LET f == LmpRun(LmpEnter(ord), g, ord)
    IN  IF f.at = "raised" THEN [exc |-> f.result[1], cost |-> None, path |-> << >>]
        ELSE [exc |-> "none", cost |-> LmpReturn(f).cost, path |-> LmpReturn(f).path]

\* the `except TimeoutError` handler
LmpOnTimeout(f, ord) ==
    IF f.path # << >> THEN [cost |-> f.total_cost, path |-> f.path]
    ELSE [cost |-> None, path |-> OrderAsPath(ord)]

---------------------------------------------------------------------------
(* rotate_path, get_locations_for_path, run_tsp_algorithm *)

RECURSIVE SeqIndex(_, _, _)
\* list.index(x), 0-based; -1 stands for ValueError
SeqIndex(s, x, i) ==
    IF i > Len(s) THEN -1
    ELSE IF s[i] = x THEN i - 1
    ELSE SeqIndex(s, x, i + 1)

\* a rotation that starts one element after ('Start', None)
RotateFromNext(path) ==
    LET start_index == SeqIndex(path, <<"Start", NoDir>>, 1)
    IN  IF start_index = -1 THEN [exc |-> "none", path |-> path]
        ELSE [exc |-> "none",
              path |-> [i \in 1 .. Len(path) |-> path[((start_index + i) % Len(path)) + 1]]]

\* rotate_path(path) -> [exc, path]; a path of None has no index method
rotate_path(path) ==
    IF path = NonePath THEN [exc |-> "AttributeError", path |-> << >>]
    ELSE LET start_index == SeqIndex(path, <<"Start", NoDir>>, 1)
         IN  IF start_index = -1 \/ start_index = 0 THEN [exc |-> "none", path |-> path]
             ELSE [exc |-> "none",
                   path |-> [i \in 1 .. Len(path) |->
                                path[((start_index + i - 1) % Len(path)) + 1]]]

\* get_locations_for_path(graph, path) -> [exc, locations]
RECURSIVE GlLoop(_, _, _, _)
GlLoop(g, path, left, locations) ==
    IF left > Len(path) - 1 THEN [exc |-> "none", locations |-> locations]
    ELSE LET left_item == path[left]
             right_item == path[left + 1]
             key == <<left_item[1], right_item[1], left_item[2]>>
         IN  IF Len(left_item) > 1
             THEN IF DictHas(g, key) /\ DictHas(DictGet(g, key), right_item[2])
                  THEN GlLoop(g, path, left + 1,
                              locations \o DictGet(DictGet(g, key), right_item[2]).path)
                  ELSE [exc |-> "KeyError", locations |-> locations]
             ELSE GlLoop(g, path, left + 1, locations)

\* a resolution that leaves out the edge that starts the tour
GlSkipFirst(g, path) == GlLoop(g, path, 2, << >>)

get_locations_for_path(g, path) == GlLoop(g, path, 1, << >>)

\* "Returned the default path, so choose an access point"
TspDefaultPath(ord) ==
    [i \in DOMAIN ord |->
        IF ord[i] = "Start" \/ ord[i] = "End" THEN <<ord[i], NoDir>> ELSE <<ord[i], "N">>]

BRANCH_AND_BOUND == "Branch and Bound"
LOCALIZED_MIN_PATH == "Localized Minimum Path"
REPETITIVE_NEAREST_NEIGHBOR == "Repetitive Nearest Neighbor"

\* the choice of algo_func
TspAlgorithm(ord, algorithm) ==
    IF algorithm = NoDir
    THEN (IF Len(ord) <= 5 THEN BRANCH_AND_BOUND ELSE REPETITIVE_NEAREST_NEIGHBOR)
    ELSE algorithm

\* ceil of a time given in tenths of a second
CeilTenths(t) == (t + 9) \div 10

\* signal.alarm(seconds): 0 cancels the timer and arms nothing
SignalAlarm(seconds) == IF seconds = 0 THEN "off" ELSE "armed"

---------------------------------------------------------------------------
(* Unused frames *)

Idle == [at |-> "idle"]

\* a call that was left: how ("returned", "timeout", "raised") and with what
Left(how, result) == [at |-> "left", how |-> how, result |-> result]

\* run_tsp_algorithm not called yet
TspIdle ==
    [algorithm |-> NoDir, cost |-> None, algo_path |-> << >>, rotated_path |-> << >>,
     path |-> << >>, outcome |-> "none", exc |-> "none", timed_out |-> FALSE,
     rerun |-> FALSE, steps |-> << >>]

---------------------------------------------------------------------------
(* Specification of one dijkstra call on an arbitrary grid *)

Self == Me(map_x, map_y, map, product_info, starting_position, ending_position)

Cells == CellsOf(GridW, GridH)
ExtCells == (-1 .. GridW) \X (-1 .. GridH)

InitDijkstra ==
    /\ map_x = GridW /\ map_y = GridH
    /\ \E items \in SUBSET Cells :
          /\ Cardinality(items) <= MaxBlocked
          /\ map = generate_map(GridW, GridH, <<0, 0>>, <<0, 0>>, items)
    /\ product_info = << >>
    /\ starting_position = <<0, 0>>
    /\ ending_position = <<0, 0>>
    /\ maximum_routing_time = 60
    /\ bnb_access_type = "Multi Access"
    /\ order_list = << >>
    /\ order = << >>
    /\ graph = << >>
    /\ alarm = "off"
    /\ pc = "dijkstra"
    /\ \E start \in Cells, target \in ExtCells :
          dj = DjEnter([map_x |-> GridW, map_y |-> GridH], start, target)
    /\ bld = Idle /\ bnb = Idle /\ nn = Idle /\ lmp = Idle /\ tsp = TspIdle

DijkstraLoop ==
    /\ pc = "dijkstra" /\ dj.at = "loop"
    /\ dj' = DjIterate(Self, map, dj)
    /\ UNCHANGED <<map_x, map_y, map, product_info, starting_position, ending_position,
                   maximum_routing_time, bnb_access_type, order_list, order, graph, alarm,
                   pc, bld, bnb, nn, lmp, tsp>>

DijkstraReconstruct ==
    /\ pc = "dijkstra" /\ dj.at = "reconstruct"
    /\ dj' = DjReconstruct(dj)
    /\ UNCHANGED <<map_x, map_y, map, product_info, starting_position, ending_position,
                   maximum_routing_time, bnb_access_type, order_list, order, graph, alarm,
                   pc, bld, bnb, nn, lmp, tsp>>

NextDijkstra == DijkstraLoop \/ DijkstraReconstruct

SpecDijkstra == InitDijkstra /\ [][NextDijkstra]_vars

---------------------------------------------------------------------------
(* Reference breadth-first search, independent of dijkstra *)

IsItem(c) == map[c[1]][c[2]] = ITEM_SYMBOL
ObstacleFree == \A c \in Cells : ~IsItem(c)

OpenNeighbours(c) ==
    {d \in Cells : Abs(d[1] - c[1]) + Abs(d[2] - c[2]) = 1 /\ ~IsItem(d)}

RECURSIVE BfsLevel(_, _, _, _)
\* number of unit steps from the frontier to target, None when the search dries up
BfsLevel(seen, frontier, target, k) ==
    IF target \in frontier THEN k
    ELSE LET next == (UNION {OpenNeighbours(c) : c \in frontier}) \ seen
         IN  IF next = {} THEN None
             ELSE BfsLevel(seen \cup next, next, target, k + 1)

BfsCost(start, target) ==
    IF target \notin Cells THEN None ELSE BfsLevel({start}, {start}, target, 0)

ValidPath(path, start, target) ==
    /\ Len(path) >= 1
    /\ path[1] = start
    /\ path[Len(path)] = target
    /\ \A i \in 1 .. Len(path) - 1 :
          /\ Abs(path[i + 1][1] - path[i][1]) + Abs(path[i + 1][2] - path[i][2]) = 1
          /\ path[i + 1] \in Cells
          /\ ~IsItem(path[i + 1])

\* C1: a finished dijkstra call agrees with the reference breadth-first search:
\* it returns ([], None) exactly when the target is out of bounds or no path of
\* open cells joins start to target; otherwise the cost is the minimum number
\* of unit steps, equals len(path) - 1, and the path runs from start to target
\* one cardinal step at a time through open cells only.
DijkstraAgreesWithBfs ==
    (pc = "dijkstra" /\ dj.at = "done") =>
        LET ref == BfsCost(dj.start, dj.target)
        IN  IF ref = None
            THEN dj.path = << >> /\ dj.cost = None
            ELSE /\ dj.cost = ref
                 /\ dj.cost = Len(dj.path) - 1
                 /\ ValidPath(dj.path, dj.start, dj.target)

\* a call that had to walk round item cells to reach its target
DijkstraDetourWitness ==
    /\ pc = "dijkstra" /\ dj.at = "done"
    /\ dj.cost # None
    /\ dj.cost > Abs(dj.start[1] - dj.target[1]) + Abs(dj.start[2] - dj.target[2])

\* C2: on an obstacle-free grid the cost of every reachable pair is the
\* Manhattan distance |x1 - x2| + |y1 - y2|.
DijkstraManhattan ==
    (pc = "dijkstra" /\ dj.at = "done" /\ ObstacleFree /\ dj.target \in Cells) =>
        dj.cost = Abs(dj.start[1] - dj.target[1]) + Abs(dj.start[2] - dj.target[2])

\* a finished call between two opposite corners of an empty grid
DijkstraManhattanWitness ==
    /\ pc = "dijkstra" /\ dj.at = "done" /\ ObstacleFree
    /\ dj.start = <<0, 0>> /\ dj.target = <<map_x - 1, map_y - 1>>
    /\ dj.cost = map_x + map_y - 2

---------------------------------------------------------------------------
(* Route requests: a built access graph, then run_tsp_algorithm *)

MaxItems == 2
MaxOthers == 2
\* a walk of nearest_neighbor that no longer makes progress is followed this far
MaxWalk == 4

ItemIds == <<"A", "B", "C", "D">>

Neighbours(c) == {d \in Cells : Abs(d[1] - c[1]) + Abs(d[2] - c[2]) = 1}

CellLess(a, b) == a[1] < b[1] \/ (a[1] = b[1] /\ a[2] < b[2])

\* warehouses: an order of up to MaxItems products on distinct shelves, listed
\* in catalog order; one ordered product may be walled in by up to MaxOthers
\* further products, not ordered, on the free shelves next to it; a worker
\* who starts on any open cell and ends where they started or at the top-left
\* corner
ItemSeqs ==
    {items \in UNION {[1 .. n -> Cells] : n \in 1 .. MaxItems} :
        \A i \in 1 .. Len(items) - 1 : CellLess(items[i], items[i + 1])}

\* no further product, or the further products that wall in one ordered item
Walls(items) ==
    {{}} \cup {w \in {Neighbours(items[i]) \ SeqToSet(items) : i \in DOMAIN items} :
                  Cardinality(w) <= MaxOthers}

LayoutsOf(items, others) ==
    LET shelves == SeqToSet(items) \cup others
    IN  {[w |-> GridW, h |-> GridH, items |-> items, others |-> others,
          start |-> p[1], end |-> p[2]] :
            p \in {q \in (Cells \ shelves) \X (Cells \ shelves) :
                      q[2] \in {q[1], <<0, GridH - 1>>}}}

\* the 5x5 warehouse with two products on the bottom row and the worker in the
\* bottom-left corner
Scenario5x5 ==
    [w |-> 5, h |-> 5, items |-> << <<2, 0>>, <<4, 0>> >>, others |-> {},
     start |-> <<0, 0>>, end |-> <<0, 0>>]

LayoutInfo(l) == [id \in {ItemIds[i] : i \in DOMAIN l.items} |->
                     l.items[CHOOSE i \in DOMAIN l.items : ItemIds[i] = id]]
LayoutIds(l) == [i \in DOMAIN l.items |-> ItemIds[i]]
LayoutMap(l) == generate_map(l.w, l.h, l.start, l.end, SeqToSet(l.items) \cup l.others)

InitWarehouse(l) ==
    /\ map_x = l.w /\ map_y = l.h
    /\ product_info = LayoutInfo(l)
    /\ starting_position = l.start
    /\ ending_position = l.end
    /\ map = LayoutMap(l)

InitLayout(l) ==
    /\ InitWarehouse(l)
    /\ order_list = LayoutIds(l)
    /\ order = process_order([product_info |-> LayoutInfo(l)], LayoutIds(l))

Settings == <<map_x, map_y, map, product_info, starting_position, ending_position,
              maximum_routing_time, bnb_access_type, order_list, order, graph>>

\* a warehouse of the grid, with the worker ending where they started when
\* round_trip
InitGrid(round_trip) ==
    \E items \in ItemSeqs : \E others \in Walls(items) :
        \E l \in LayoutsOf(items, others) :
            (round_trip => l.end = l.start) /\ InitLayout(l)

\* the products of the order are chosen; the settings are the defaults of
\* __init__ but for the map, the worker and the access type
InitRoute(access_types) ==
    /\ maximum_routing_time = 60
    /\ bnb_access_type \in access_types
    /\ graph = << >>
    /\ alarm = "off"
    /\ pc = "order"
    /\ dj = Idle /\ bld = Idle /\ bnb = Idle /\ nn = Idle /\ lmp = Idle /\ tsp = TspIdle

InitSolve ==
    /\ InitGrid(FALSE) \/ InitLayout(Scenario5x5)
    /\ InitRoute({SINGLE_ACCESS, MULTI_ACCESS})

\* "Create Order": `self.order = self.process_order(product_ids)` was done by
\* InitLayout; `self.graph = self.build_graph_for_order(self.order)` either
\* stores the graph or lets the exception end the program
PlaceOrder ==
    /\ pc = "order"
    /\ LET built == build_graph_for_order(Self, order)
       IN  IF built.exc = "none"
           THEN /\ graph' = built.graph
                /\ bld' = Left("returned", <<"none">>)
                /\ pc' = "menu"
           ELSE /\ graph' = graph
                /\ bld' = Left("raised", <<built.exc>>)
                /\ pc' = "done"
    /\ UNCHANGED <<map_x, map_y, map, product_info, starting_position, ending_position,
                   maximum_routing_time, bnb_access_type, order_list, order, alarm,
                   dj, bnb, nn, lmp, tsp>>

\* what set_maximum_routing_time stores for an input given in tenths of a second
StoredRoutingTime(routing_time) ==
    CeilTenths(IF routing_time = 0 THEN 10 ELSE routing_time)

\* set_maximum_routing_time with an input that verify_settings_range accepts
SetMaximumRoutingTime(routing_time) ==
    /\ pc = "menu"
    /\ 0 <= routing_time /\ routing_time <= 14400
    /\ maximum_routing_time' = StoredRoutingTime(routing_time)
    /\ UNCHANGED <<map_x, map_y, map, product_info, starting_position, ending_position,
                   bnb_access_type, order_list, order, graph, alarm, pc, dj, bld, bnb, nn, lmp, tsp>>

\* run_tsp_algorithm up to the call of algo_func and the solver's signal.alarm
RunTsp(algorithm) ==
    /\ pc = "menu"
    /\ tsp' = [TspIdle EXCEPT !.algorithm = TspAlgorithm(order, algorithm)]
    /\ alarm' = SignalAlarm(maximum_routing_time)
    /\ \/ /\ TspAlgorithm(order, algorithm) = BRANCH_AND_BOUND
          /\ \E k \in DOMAIN graph : bnb' = BnbEnter(graph[k].key[1])
          /\ pc' = "bnb" /\ UNCHANGED <<nn, lmp>>
       \/ /\ TspAlgorithm(order, algorithm) = REPETITIVE_NEAREST_NEIGHBOR
          /\ nn' = NnEnter(graph, order)
          /\ pc' = "nn" /\ UNCHANGED <<bnb, lmp>>
       \/ /\ TspAlgorithm(order, algorithm) = LOCALIZED_MIN_PATH
          /\ lmp' = LmpEnter(order)
          /\ pc' = "lmp" /\ UNCHANGED <<bnb, nn>>
    /\ UNCHANGED <<Settings, dj, bld>>

\* the solver hands (cost, algo_path) back to run_tsp_algorithm
TspReceive(r) ==
    /\ tsp' = [tsp EXCEPT !.cost = r.cost, !.algo_path = r.path]
    /\ pc' = "rotate"

\* an exception leaves run_tsp_algorithm
TspRaise(exc) ==
    /\ tsp' = [tsp EXCEPT !.outcome = "raised", !.exc = exc]
    /\ pc' = "done"

BnbSetup ==
    /\ pc = "bnb" /\ bnb.at = "setup"
    /\ bnb' = BnbInit(graph, bnb)
    /\ UNCHANGED <<Settings, alarm, pc, dj, bld, nn, lmp, tsp>>

BnbLoop ==
    /\ pc = "bnb" /\ bnb.at = "loop"
    /\ bnb' = BnbIterate(bnb, bnb_access_type, order)
    /\ UNCHANGED <<Settings, alarm, pc, dj, bld, nn, lmp, tsp>>

BnbRecordBest ==
    /\ pc = "bnb" /\ bnb.at = "record"
    /\ bnb' = BnbRecord(bnb, bnb_access_type)
    /\ UNCHANGED <<Settings, alarm, pc, dj, bld, nn, lmp, tsp>>

BnbFinish ==
    /\ pc = "bnb" /\ bnb.at = "return"
    /\ bnb' = Left("returned", BnbReturn(bnb))
    /\ TspReceive(BnbReturn(bnb))
    /\ UNCHANGED <<Settings, alarm, dj, bld, nn, lmp>>

NnStep ==
    /\ pc = "nn" /\ nn.at = "walk"
    /\ Len(nn.queue) < Len(order) + MaxWalk
    /\ nn' = NnWalk(nn, graph)
    /\ UNCHANGED <<Settings, alarm, pc, dj, bld, bnb, lmp, tsp>>

NnCloseWalk ==
    /\ pc = "nn" /\ nn.at = "close"
    /\ nn' = NnClose(nn, graph, order)
    /\ UNCHANGED <<Settings, alarm, pc, dj, bld, bnb, lmp, tsp>>

NnFinish ==
    /\ pc = "nn" /\ nn.at = "return"
    /\ nn' = Left("returned", NnReturn(nn))
    /\ TspReceive(NnReturn(nn))
    /\ UNCHANGED <<Settings, alarm, dj, bld, bnb, lmp>>

LmpSortStep ==
    /\ pc = "lmp" /\ lmp.at = "sort"
    /\ lmp' = LmpSort(lmp, graph, order)
    /\ UNCHANGED <<Settings, alarm, pc, dj, bld, bnb, nn, tsp>>

LmpThreadStep ==
    /\ pc = "lmp" /\ lmp.at = "thread"
    /\ lmp' = LmpThread(lmp, graph)
    /\ UNCHANGED <<Settings, alarm, pc, dj, bld, bnb, nn, tsp>>

LmpFinish ==
    /\ pc = "lmp" /\ lmp.at = "return"
    /\ lmp' = Left("returned", LmpReturn(lmp))
    /\ TspReceive(LmpReturn(lmp))
    /\ UNCHANGED <<Settings, alarm, dj, bld, bnb, nn>>

\* an exception other than TimeoutError raised inside a solver: no handler
\* catches it, in the solver or in run_tsp_algorithm
SolverRaise ==
    /\ \/ /\ pc = "bnb" /\ bnb.at = "raised" /\ TspRaise(bnb.result[1])
          /\ bnb' = Left("raised", bnb.result) /\ UNCHANGED <<nn, lmp>>
       \/ /\ pc = "nn" /\ nn.at = "raised" /\ TspRaise(nn.result[1])
          /\ nn' = Left("raised", nn.result) /\ UNCHANGED <<bnb, lmp>>
       \/ /\ pc = "lmp" /\ lmp.at = "raised" /\ TspRaise(lmp.result[1])
          /\ lmp' = Left("raised", lmp.result) /\ UNCHANGED <<bnb, nn>>
    /\ UNCHANGED <<Settings, alarm, dj, bld>>

\* `rotated_path = self.rotate_path(algo_path)` and the default-path test
TspRotate ==
    /\ pc = "rotate"
    /\ LET r == rotate_path(tsp.algo_path)
       IN  IF r.exc # "none" THEN TspRaise(r.exc)
           ELSE /\ tsp' = [tsp EXCEPT !.rotated_path =
                              IF r.path = OrderAsPath(order) THEN TspDefaultPath(order)
                              ELSE r.path]
                /\ pc' = "locations"
    /\ UNCHANGED <<Settings, alarm, dj, bld, bnb, nn, lmp>>

\* `path = self.get_locations_for_path(graph, rotated_path)` and the timing
TspLocations ==
    /\ pc = "locations"
    /\ LET r == get_locations_for_path(graph, tsp.rotated_path)
       IN  IF r.exc # "none" THEN TspRaise(r.exc)
           ELSE /\ tsp' = [tsp EXCEPT !.path = r.locations]
                /\ pc' = "disarm"
    /\ UNCHANGED <<Settings, alarm, dj, bld, bnb, nn, lmp>>

\* `signal.alarm(0)` and `return cost, rotated_path, path, total_time`
TspDisarm ==
    /\ pc = "disarm"
    /\ alarm' = "off"
    /\ tsp' = [tsp EXCEPT !.outcome = "returned", !.timed_out = (alarm = "fired")]
    /\ pc' = "done"
    /\ UNCHANGED <<Settings, dj, bld, bnb, nn, lmp>>

\* the code positions covered by a solver's `try:` ... `except TimeoutError`
InBnbTry == pc = "bnb" /\ bnb.at \in {"loop", "record"}
InNnTry == pc = "nn" /\ nn.at \in {"walk", "close"}
InLmpTry == pc = "lmp" /\ lmp.at \in {"sort", "thread"}

\* SIGALRM is delivered: timeout_handler raises TimeoutError at the current
\* position of the running call
Timeout ==
    /\ alarm = "armed"
    /\ pc \in {"bnb", "nn", "lmp", "rotate", "locations", "disarm"}
    /\ alarm' = "fired"
    /\ IF InBnbTry
       THEN /\ bnb' = Left("timeout", BnbOnTimeout(bnb, order))
            /\ TspReceive(BnbOnTimeout(bnb, order))
            /\ UNCHANGED <<nn, lmp>>
       ELSE IF InNnTry
       THEN /\ nn' = Left("raised", NnOnTimeout(nn, order))
            /\ TspRaise(NnOnTimeout(nn, order)[1])
            /\ UNCHANGED <<bnb, lmp>>
       ELSE IF InLmpTry
       THEN /\ lmp' = Left("timeout", LmpOnTimeout(lmp, order))
            /\ TspReceive(LmpOnTimeout(lmp, order))
            /\ UNCHANGED <<bnb, nn>>
       ELSE /\ TspRaise("TimeoutError")
            /\ bnb' = (IF pc = "bnb" THEN Left("raised", <<"TimeoutError">>) ELSE bnb)
            /\ nn' = (IF pc = "nn" THEN Left("raised", <<"TimeoutError">>) ELSE nn)
            /\ lmp' = (IF pc = "lmp" THEN Left("raised", <<"TimeoutError">>) ELSE lmp)
    /\ UNCHANGED <<Settings, dj, bld>>

NextSolve ==
    \/ PlaceOrder
    \/ \E algorithm \in {NoDir, BRANCH_AND_BOUND, LOCALIZED_MIN_PATH,
                         REPETITIVE_NEAREST_NEIGHBOR} : RunTsp(algorithm)
    \/ BnbSetup \/ BnbLoop \/ BnbRecordBest \/ BnbFinish
    \/ NnStep \/ NnCloseWalk \/ NnFinish
    \/ LmpSortStep \/ LmpThreadStep \/ LmpFinish
    \/ SolverRaise
    \/ TspRotate \/ TspLocations \/ TspDisarm
    \/ Timeout

SpecSolve == InitSolve /\ [][NextSolve]_vars

---------------------------------------------------------------------------
(* Route requests after the user has set the time budget: the worker returns *)
(* to where they started and the access type is the default of __init__     *)

\* inputs of set_maximum_routing_time, in tenths of a second
RoutingTimes == {0, 4, 10, 600}

InitBudget == InitGrid(TRUE) /\ InitRoute({MULTI_ACCESS})

NextBudget ==
    \/ \E routing_time \in RoutingTimes : SetMaximumRoutingTime(routing_time)
    \/ NextSolve

SpecBudget == InitBudget /\ [][NextBudget]_vars

---------------------------------------------------------------------------
(* Reference tours: the closed tours over the nodes of an order *)

DirSet == SeqToSet(DirNames)

\* original cost of the edge from access point a to access point b
EdgeCost(g, a, b) ==
    LET key == <<a[1], b[1], a[2]>>
    IN  IF DictHas(g, key) /\ DictHas(DictGet(g, key), b[2])
        THEN CostOrInf(DictGet(DictGet(g, key), b[2]).cost)
        ELSE INFINITY

RECURSIVE TourCostFrom(_, _, _)
TourCostFrom(g, tour, i) ==
    IF i > Len(tour) THEN 0
    ELSE Plus(EdgeCost(g, tour[i], tour[(i % Len(tour)) + 1]), TourCostFrom(g, tour, i + 1))

\* total original edge cost of a tour, the loop-closing edge included
TourCost(g, tour) == TourCostFrom(g, tour, 1)

\* a sequence of (node, direction) pairs that visits every node of ord once
IsTour(path, ord) ==
    /\ Len(path) = Len(ord)
    /\ \A i \in DOMAIN path : Len(path[i]) = 2
    /\ {path[i][1] : i \in DOMAIN path} = SeqToSet(ord)

\* every tour from Start, with every choice of access point
Tours(ord) ==
    LET n == Len(ord)
        perms == {p \in [1 .. n -> SeqToSet(ord)] :
                     p[1] = ord[1] /\ \A i, j \in 1 .. n : i # j => p[i] # p[j]}
    IN  {[i \in 1 .. n |-> <<p[i], IF p[i] \in {"Start", "End"} THEN NoDir ELSE d[i]>>] :
            p \in perms, d \in [1 .. n -> DirSet]}

MinTourCost(g, ord) ==
    LET costs == {TourCost(g, t) : t \in Tours(ord)}
    IN  CHOOSE c \in costs : \A d \in costs : c <= d

\* the alarm went off during this run of run_tsp_algorithm
DeadlineFired == alarm = "fired" \/ tsp.timed_out

---------------------------------------------------------------------------
(* Claims about the solvers *)

\* C3: branch and bound is exact: a call the deadline does not interrupt
\* returns a tour over every node of the order whose total original edge cost,
\* the loop-closing edge included, is the minimum over all such tours, for
\* every start key and in both access modes.
BnbExact ==
    (bnb.at = "left" /\ bnb.how = "returned" /\ MinTourCost(graph, order) < INFINITY) =>
        /\ IsTour(bnb.result.path, order)
        /\ TourCost(graph, bnb.result.path) = MinTourCost(graph, order)

\* C4: when no solver times out, on the same graph and order the cost
\* branch_and_bound returns is at most the cost nearest_neighbor returns, which
\* is at most the cost localized_min_path returns.
SolverCostsOrdered ==
    (bnb.at = "left" /\ bnb.how = "returned") =>
        LET b == bnb.result.cost
            n == nearest_neighbor(graph, order, MaxWalk)
            l == localized_min_path(graph, order)
        IN  (n.exc = "none" /\ l.exc = "none" /\ n.cost # None /\ l.cost # None) =>
                (b <= n.cost /\ n.cost <= l.cost)

IsScenario5x5 ==
    /\ map_x = 5 /\ map_y = 5
    /\ starting_position = <<0, 0>> /\ ending_position = <<0, 0>>
    /\ order = <<"Start", "A", "B", "End">>
    /\ product_info["A"] = <<2, 0>> /\ product_info["B"] = <<4, 0>>
    /\ \A x \in 0 .. 4, y \in 0 .. 4 :
          map[x][y] = ITEM_SYMBOL <=> <<x, y>> \in {<<2, 0>>, <<4, 0>>}

\* C5: on the 5x5 grid with Start = End = (0,0) and items at (2,0) and (4,0),
\* building the access graph succeeds and an uninterrupted branch_and_bound
\* yields cost 8 and the tour Start, item at (2,0), item at (4,0), End or its
\* reverse.
Scenario5x5Route ==
    (IsScenario5x5 /\ pc = "done") =>
        /\ bld.how = "returned"
        /\ (tsp.algorithm = BRANCH_AND_BOUND /\ bnb.at = "left" /\ bnb.how = "returned") =>
              /\ bnb.result.cost = 8
              /\ rotate_path(bnb.result.path).exc = "none"
              /\ LET tour == rotate_path(bnb.result.path).path
                 IN  [i \in DOMAIN tour |-> tour[i][1]] \in
                         {<<"Start", "A", "B", "End">>, <<"Start", "End", "B", "A">>}

\* the cost recorded for final_path: between `final_path = src_path` and
\* `minimum_cost = total_final_reduction` it is the pending total
BnbBest(b) == IF b.at = "record" THEN b.pending.total ELSE b.minimum_cost

BnbDeadlineStep ==
    (pc = "bnb" /\ alarm = "armed" /\ alarm' = "fired") =>
        /\ bnb'.how = "timeout"
        /\ tsp'.outcome # "raised"
        /\ bnb.final_path # << >> => IsTour(bnb.final_path, order)
        /\ bnb'.result = IF bnb.final_path = << >>
                         THEN [cost |-> None, path |-> OrderAsPath(order)]
                         ELSE [cost |-> BnbBest(bnb), path |-> bnb.final_path]

\* C6: when the deadline fires during branch_and_bound it returns the best
\* tour with its cost if a complete tour had been recorded and (None, order)
\* otherwise; it never raises and never returns an incomplete tour.
BnbDeadlineContract == [][BnbDeadlineStep]_vars

NnDeadlineStep ==
    (pc = "nn" /\ alarm = "armed" /\ alarm' = "fired") =>
        /\ nn'.how = "timeout"
        /\ tsp'.outcome # "raised"
        /\ nn'.result = IF nn.final_path = NonePath
                        THEN [cost |-> None, path |-> OrderAsPath(order)]
                        ELSE [cost |-> nn.final_cost, path |-> nn.final_path]

\* C7: when the deadline fires during nearest_neighbor, at any point of its
\* walk, it returns the cheapest completed walk found so far, or (None, order)
\* if none was completed; the timeout never escapes as an exception.
NnDeadlineContract == [][NnDeadlineStep]_vars

Blocked(c) == c \notin CellsOf(map_x, map_y) \/ map[c[1]][c[2]] = ITEM_SYMBOL

\* all four approach cells of the product's shelf are blocked
WalledIn(id) ==
    \A k \in DOMAIN DirNames :
        Blocked(<<product_info[id][1] + DirDx[k], product_info[id][2] + DirDy[k]>>)

WalledInItems ==
    {order[i] : i \in {j \in DOMAIN order : order[j] \notin {"Start", "End"}
                                            /\ WalledIn(order[j])}}

\* the graph has an edge out of or into node
HasEdge(g, node) ==
    \E k \in DOMAIN g : (g[k].key[1] = node \/ g[k].key[2] = node) /\ g[k].val # << >>

\* C8: for an order with a walled-in item the built graph has no edge into or
\* out of that node, and a run of branch_and_bound or nearest_neighbor on it
\* ends and reports failure: the walk does not run on without end (it never
\* outgrows the order by MaxWalk entries) and, with no deadline fired, the
\* request returns a cost of None or INFINITY instead of raising.
WalledInOrderFails ==
    (WalledInItems # {} /\ bld.at = "left" /\ bld.how = "returned") =>
        /\ \A id \in WalledInItems : ~HasEdge(graph, id)
        /\ tsp.algorithm \in {BRANCH_AND_BOUND, REPETITIVE_NEAREST_NEIGHBOR} =>
              /\ (pc = "nn" /\ nn.at = "walk") => Len(nn.queue) < Len(order) + MaxWalk
              /\ (pc = "done" /\ ~DeadlineFired) =>
                    (tsp.outcome = "returned" /\ tsp.cost \in {None, INFINITY})

\* C9: with the budget that an input of 0 stores, a branch-and-bound request
\* runs under an armed deadline, and when the deadline fires before a tour is
\* recorded the request returns, is reported as timed out, and carries the
\* input-order fallback tour with no cost.
BudgetZeroFailsFast ==
    (maximum_routing_time = StoredRoutingTime(0) /\ tsp.algorithm = BRANCH_AND_BOUND) =>
        /\ pc = "bnb" => alarm # "off"
        /\ (pc = "done" /\ bnb.at = "left" /\ bnb.how = "timeout" /\ bnb.result.cost = None) =>
              /\ tsp.outcome = "returned" /\ tsp.timed_out
              /\ tsp.cost = None /\ tsp.rotated_path = TspDefaultPath(order)

\* C10: whenever the alarm fires between its arming in a solver and its
\* disarming at the end of run_tsp_algorithm, run_tsp_algorithm still returns
\* a (cost, tour, path, time) result.
DeadlineNeverEscapes ==
    (pc = "done" /\ DeadlineFired) => tsp.outcome = "returned"

\* C11: whenever a solver hands back (None, order), run_tsp_algorithm still
\* returns: the fallback tour built from the order resolves through
\* get_locations_for_path to a position sequence without raising.
FallbackRouteResolves ==
    (pc = "done" /\ tsp.algorithm # NoDir /\ tsp.cost = None
        /\ tsp.algo_path = OrderAsPath(order) /\ tsp.exc # "TimeoutError") =>
        /\ tsp.outcome = "returned"
        /\ tsp.rotated_path = TspDefaultPath(order)

---------------------------------------------------------------------------
(* Specification of rotate_path applied twice to an arbitrary tour *)

MaxTour == 4

\* the (node, direction) pairs a tour is made of
TourPairs ==
    {<<"Start", NoDir>>, <<"End", NoDir>>} \cup ({"A", "B"} \X {"N", "S"})

\* every settings variable and frame but tsp and pc at its value after __init__
QuietBut(frame) ==
    /\ map_x = GridW /\ map_y = GridH
    /\ map = generate_map(GridW, GridH, <<0, 0>>, <<0, 0>>, {})
    /\ product_info = << >>
    /\ starting_position = <<0, 0>> /\ ending_position = <<0, 0>>
    /\ maximum_routing_time = 60
    /\ bnb_access_type = MULTI_ACCESS
    /\ order_list = << >> /\ order = << >> /\ graph = << >>
    /\ alarm = "off"
    /\ dj = Idle /\ bld = Idle /\ bnb = Idle /\ nn = Idle /\ lmp = Idle
    /\ tsp = frame

InitRotate ==
    /\ pc = "rotate_path"
    /\ \E n \in 0 .. MaxTour : \E t \in [1 .. n -> TourPairs] :
          QuietBut([path |-> t, once |-> << >>, twice |-> << >>])

\* rotated = rotate_path(path)
RotateOnce ==
    /\ pc = "rotate_path"
    /\ tsp' = [tsp EXCEPT !.once = rotate_path(tsp.path).path]
    /\ pc' = "rotate_again"
    /\ UNCHANGED <<Settings, alarm, dj, bld, bnb, nn, lmp>>

\* rotate_path(rotated)
RotateTwice ==
    /\ pc = "rotate_again"
    /\ tsp' = [tsp EXCEPT !.twice = rotate_path(tsp.once).path]
    /\ pc' = "rotated"
    /\ UNCHANGED <<Settings, alarm, dj, bld, bnb, nn, lmp>>

---------------------------------------------------------------------------
(* collapse_directions applied twice to an arbitrary walk on the grid *)

MaxPath == 5

\* the cells one step away from c, and c itself
Near(c) == {d \in Cells : Abs(d[1] - c[1]) + Abs(d[2] - c[2]) <= 1}

\* the walks that extend positions, up to MaxPath cells
RECURSIVE InitWalk(_)
InitWalk(positions) ==
    \/ QuietBut([positions |-> positions, once |-> << >>, twice |-> << >>])
    \/ /\ Len(positions) < MaxPath
       /\ \E d \in Near(positions[Len(positions)]) : InitWalk(Append(positions, d))

InitCollapse ==
    /\ pc = "collapse_directions"
    /\ \E c \in Cells : InitWalk(<<c>>)

\* updated_path = collapse_directions(positions)
CollapseOnce ==
    /\ pc = "collapse_directions"
    /\ tsp' = [tsp EXCEPT !.once = collapse_directions(tsp.positions).result]
    /\ pc' = "collapse_again"
    /\ UNCHANGED <<Settings, alarm, dj, bld, bnb, nn, lmp>>

\* collapse_directions(updated_path)
CollapseTwice ==
    /\ pc = "collapse_again"
    /\ tsp' = [tsp EXCEPT !.twice = collapse_directions(tsp.once).result]
    /\ pc' = "collapsed"
    /\ UNCHANGED <<Settings, alarm, dj, bld, bnb, nn, lmp>>

---------------------------------------------------------------------------
(* Single calls of the path helpers with arbitrary arguments *)

InitCalls == InitRotate \/ InitCollapse

NextCalls == RotateOnce \/ RotateTwice \/ CollapseOnce \/ CollapseTwice

SpecCalls == InitCalls /\ [][NextCalls]_vars

\* r is t shifted cyclically by k places
IsShift(r, t, k) ==
    /\ Len(r) = Len(t)
    /\ \A i \in 1 .. Len(t) : r[i] = t[((i - 1 + k) % Len(t)) + 1]

\* C12: rotate_path is idempotent; when ('Start', None) occurs in the tour the
\* result is the cyclic shift of the tour that begins with ('Start', None),
\* of the same length and cyclic order; when it does not occur the tour is
\* returned unchanged.
RotateIdempotent ==
    pc = "rotated" =>
        /\ tsp.twice = tsp.once
        /\ rotate_path(tsp.path).exc = "none"
        /\ IF <<"Start", NoDir>> \in SeqToSet(tsp.path)
           THEN /\ tsp.once[1] = <<"Start", NoDir>>
                /\ \E k \in 0 .. Len(tsp.path) - 1 : IsShift(tsp.once, tsp.path, k)
           ELSE tsp.once = tsp.path

\* a tour with ('Start', None) in its last place was rotated
RotateWitness ==
    /\ pc = "rotated"
    /\ Len(tsp.path) = MaxTour
    /\ tsp.path[MaxTour] = <<"Start", NoDir>>
    /\ tsp.once # tsp.path
    /\ tsp.once[1] = <<"Start", NoDir>>

\* C14: collapse_directions is idempotent on every non-empty path, single
\* cells and repeated cells included, and the collapsed path keeps the first
\* and the last position of the path.
CollapseIdempotent ==
    pc = "collapsed" =>
        /\ collapse_directions(tsp.positions).exc = "none"
        /\ tsp.twice = tsp.once
        /\ tsp.once[1] = tsp.positions[1]
        /\ tsp.once[Len(tsp.once)] = tsp.positions[Len(tsp.positions)]

\* a walk with a turn and a repeated cell was collapsed to fewer positions
CollapseWitness ==
    /\ pc = "collapsed"
    /\ Len(tsp.positions) = MaxPath
    /\ \E i \in 1 .. MaxPath - 1 : tsp.positions[i] = tsp.positions[i + 1]
    /\ Len(tsp.once) = 3
    /\ tsp.once[1][1] # tsp.once[3][1] /\ tsp.once[1][2] # tsp.once[3][2]

\* C13: for every complete tour a solver hands back, once rotated,
\* get_locations_for_path returns a position sequence whose first element is
\* the Start position and whose last element is the End position.
LocationsStartToEnd ==
    (pc \in {"disarm", "done"} /\ tsp.cost # None /\ tsp.exc # "TimeoutError"
        /\ IsTour(tsp.rotated_path, order)) =>
        /\ tsp.exc = "none"
        /\ tsp.path # << >>
        /\ tsp.path[1] = starting_position
        /\ tsp.path[Len(tsp.path)] = ending_position

\* a tour over two products that nearest_neighbor began at a product and that
\* rotate_path had to shift was resolved, the worker ending away from the start
LocationsWitness ==
    /\ pc = "done" /\ tsp.outcome = "returned"
    /\ tsp.algorithm = REPETITIVE_NEAREST_NEIGHBOR
    /\ Len(order) = 4 /\ IsTour(tsp.rotated_path, order)
    /\ tsp.rotated_path # tsp.algo_path
    /\ starting_position # ending_position
    /\ tsp.path[1] = starting_position
    /\ tsp.path[Len(tsp.path)] = ending_position

---------------------------------------------------------------------------
(* Create Order: the order request is read, checked and turned into the
   node order that build_graph_for_order receives *)

MaxOrder == 2

\* the product ids a request may name; "Z" is in no catalog
RequestIds == {"A", "B", "Z"}

\* `for product_id in order_list` of the individual order: product_ids and
\* success after the loop
RECURSIVE EnterIds(_, _, _, _, _)
EnterIds(me, request, k, product_ids, success) ==
    IF k > Len(request) THEN [product_ids |-> product_ids, success |-> success]
    ELSE IF request[k] \in DOMAIN me.product_info
    THEN EnterIds(me, request, k + 1, Append(product_ids, request[k]), TRUE)
    ELSE EnterIds(me, request, k + 1, << >>, FALSE)

\* a warehouse without obstacles, the worker ending where they started, at
\* the prompt of "Create Order"
InitOrder ==
    /\ \E items \in ItemSeqs : \E l \in LayoutsOf(items, {}) :
            l.end = l.start /\ InitWarehouse(l)
    /\ maximum_routing_time = 60
    /\ bnb_access_type = MULTI_ACCESS
    /\ order_list = << >> /\ order = << >> /\ graph = << >>
    /\ alarm = "off"
    /\ pc = "create_order"
    /\ dj = Idle /\ bld = Idle /\ bnb = Idle /\ nn = Idle /\ lmp = Idle /\ tsp = TspIdle

\* "Individual Order": the ids are read one by one; when the loop ends with
\* success the order is processed, otherwise the prompt is shown again
EnterOrder(request) ==
    /\ pc = "create_order"
    /\ order_list' = request
    /\ LET read == EnterIds(Self, request, 1, << >>, FALSE)
       IN  IF read.success /\ read.product_ids # << >>
           THEN /\ order' = process_order(Self, read.product_ids)
                /\ pc' = "order"
           ELSE /\ order' = order
                /\ pc' = "create_order"
    /\ UNCHANGED <<map_x, map_y, map, product_info, starting_position, ending_position,
                   maximum_routing_time, bnb_access_type, graph, alarm,
                   dj, bld, bnb, nn, lmp, tsp>>

\* "Order from File": product_ids is the line of the order file as it was read
UseOrderFile(request) ==
    /\ pc = "create_order"
    /\ order_list' = request
    /\ order' = process_order(Self, request)
    /\ pc' = "order"
    /\ UNCHANGED <<map_x, map_y, map, product_info, starting_position, ending_position,
                   maximum_routing_time, bnb_access_type, graph, alarm,
                   dj, bld, bnb, nn, lmp, tsp>>

NextOrder ==
    \/ \E n \in 1 .. MaxOrder : \E request \in [1 .. n -> RequestIds] : EnterOrder(request)
    \/ \E n \in 1 .. MaxOrder : \E request \in [1 .. n -> RequestIds] : UseOrderFile(request)
    \/ PlaceOrder

SpecOrder == InitOrder /\ [][NextOrder]_vars

NoRepeat(s) == \A i, j \in DOMAIN s : i # j => s[i] # s[j]

\* C15: a request that repeats a product id or names an id outside the
\* catalog never gets as far as build_graph_for_order, and the node order
\* that build_graph_for_order receives begins with Start, ends with End and
\* repeats no node.
OrderRequestsChecked ==
    pc = "order" =>
        /\ NoRepeat(order_list)
        /\ \A k \in DOMAIN order_list : order_list[k] \in DOMAIN product_info
        /\ order[1] = "Start" /\ order[Len(order)] = "End"
        /\ NoRepeat(order)

---------------------------------------------------------------------------
(* Graph construction *)

\* the cells from which a node of the order is approached
ApproachCells(node) ==
    IF node = "Start" THEN {starting_position}
    ELSE IF node = "End" THEN {ending_position}
    ELSE {<<product_info[node][1] + DirDx[k], product_info[node][2] + DirDy[k]>> :
              k \in DOMAIN DirNames}

\* the approach cells of a pair that build_graph_for_order connects, both on
\* the grid and free, with no open path from one to the other
CutOffPairs ==
    {p \in UNION {ApproachCells(order[i]) \X ApproachCells(order[j]) :
                     i, j \in {k \in DOMAIN order :
                                   order[k] = "Start" \/ order[k] \in DOMAIN product_info}} :
        /\ ~Blocked(p[1]) /\ ~Blocked(p[2])
        /\ BfsCost(p[1], p[2]) = None}

\* an ordered product lies in the last column or the top row of the grid
FarBorderItems ==
    {order[i] : i \in {k \in DOMAIN order :
                           /\ order[k] \in DOMAIN product_info
                           /\ \/ product_info[order[k]][1] = map_x - 1
                              \/ product_info[order[k]][2] = map_y - 1}}

\* C16: when two approach cells of a pair are on the grid and free but no
\* open path connects them, build_graph_for_order returns a graph instead of
\* raising (no ordered product lies on the far border, so that every approach
\* cell can be read from the map).
UnreachablePairTolerated ==
    (bld.at = "left" /\ CutOffPairs # {} /\ FarBorderItems = {}) =>
        bld.how = "returned"

\* C17: an approach cell that is off the grid on any side, or on a shelf, is
\* passed over: build_graph_for_order returns a graph, for products on any
\* border of the grid, and no edge of the graph ends on such a cell (every
\* pair of free approach cells being connected).
BorderApproachRejected ==
    (bld.at = "left" /\ CutOffPairs = {}) =>
        /\ bld.how = "returned"
        /\ \A k \in DOMAIN graph : \A d \in DOMAIN graph[k].val :
              ~Blocked(graph[k].val[d].val.location)

---------------------------------------------------------------------------
(* The frontier of branch_and_bound *)

\* the access points of a node
AccessPoints(node) ==
    IF node \in {"Start", "End"} THEN {<<node, NoDir>>} ELSE {node} \X DirSet

\* original cost of the edges along a path
RECURSIVE PathCost(_, _, _)
PathCost(g, path, i) ==
    IF i >= Len(path) THEN 0
    ELSE Plus(EdgeCost(g, path[i], path[i + 1]), PathCost(g, path, i + 1))

\* original cost of the cheapest way from access point last through every
\* node of rest and back to access point first
RECURSIVE MinExtension(_, _, _, _)
MinExtension(g, first, last, rest) ==
    IF rest = {} THEN EdgeCost(g, last, first)
    ELSE MinOf({Plus(EdgeCost(g, last, a), MinExtension(g, first, a, rest \ {a[1]})) :
                   a \in UNION {AccessPoints(node) : node \in rest}})

\* original cost of the cheapest complete tour that begins with path
CheapestTourFrom(g, path, ord) ==
    Plus(PathCost(g, path, 1),
         MinExtension(g, path[1], path[Len(path)], SeqToSet(ord) \ PathNodes(path)))

\* C18: the cost of a frontier state of branch_and_bound, which is the cost
\* committed so far plus the reduction cost of matrix_reduction, never
\* exceeds the original cost of the cheapest complete tour that begins with
\* the path of the state; checked in Multi Access mode, where every state
\* carries the total of its own access point, on the state that is popped next.
ReductionIsLowerBound ==
    (pc = "bnb" /\ bnb.at = "loop" /\ bnb_access_type = MULTI_ACCESS) =>
        LET node == bnb.queue[PopIndex(bnb.queue) + 1]
        IN  node.cost <= CheapestTourFrom(graph, node.path, order)

\* C19: whenever branch_and_bound is about to pop, the frontier list is
\* ordered by cost and the state that the pop removes has the least cost of
\* all states on the frontier.
FrontierMinFirst ==
    (pc = "bnb" /\ bnb.at = "loop") =>
        /\ \A i \in 1 .. Len(bnb.queue) - 1 : bnb.queue[i].cost <= bnb.queue[i + 1].cost
        /\ \A i \in DOMAIN bnb.queue :
              bnb.queue[PopIndex(bnb.queue) + 1].cost <= bnb.queue[i].cost

\* the positions in queue of the states that extend the path of node by dest
Kids(queue, node, dest) ==
    {i \in DOMAIN queue :
        /\ Len(queue[i].path) = Len(node.path) + 1
        /\ SubSeq(queue[i].path, 1, Len(node.path)) = node.path
        /\ queue[i].path[Len(queue[i].path)][1] = dest}

\* cost + edge cost + reduction cost of going on from node to dest by
\* direction direc
ChildTotal(node, dest, direc) ==
    LET key == <<node.source, dest, node.source_direction>>
    IN  Plus(Plus(node.cost, DictGet(DictGet(node.matrix, key), direc).cost),
             matrix_reduction(node.matrix, key, direc).reduction_cost)

\* the directions of dest that have a finite cost from node
FiniteDirections(node, dest) ==
    LET key == <<node.source, dest, node.source_direction>>
    IN  IF ~DictHas(node.matrix, key) THEN {}
        ELSE {d \in DirSet \cup {NoDir} :
                 /\ DictHas(DictGet(node.matrix, key), d)
                 /\ DictGet(DictGet(node.matrix, key), d).cost \notin {None, INFINITY}}

\* one expansion of branch_and_bound: node is expanded and the frontier goes
\* from before to after
SingleChildIsCheapest(node, before, after) ==
    \A dest \in SeqToSet(order) \ PathNodes(node.path) :
        LET inserted == Cardinality(Kids(after, node, dest))
                            - Cardinality(Kids(before, node, dest))
            totals == {ChildTotal(node, dest, d) : d \in FiniteDirections(node, dest)}
        IN  /\ inserted <= 1
            /\ inserted = 1 =>
                  \E i \in Kids(after, node, dest) :
                      LET direc == after[i].path[Len(after[i].path)][2]
                      IN  /\ direc \in FiniteDirections(node, dest)
                          /\ ChildTotal(node, dest, direc) = MinOf(totals)
                          /\ after[i].cost = MinOf(totals)

\* C20: in Single Access mode an expansion inserts at most one state for
\* each destination not yet on the path; the state carries the direction of
\* the destination whose total (cost + edge cost + reduction cost) is the
\* least over the directions of finite cost, and its cost is that total.
SingleAccessChild ==
    [][(/\ pc = "bnb" /\ bnb_access_type = SINGLE_ACCESS
        /\ bnb.at \in {"loop", "record"}
        /\ bnb'.at \in {"loop", "return", "record"}) =>
            IF bnb.at = "record"
            THEN SingleChildIsCheapest(bnb.pending.node, bnb.queue, bnb'.queue)
            ELSE LET index == PopIndex(bnb.queue)
                 IN  SingleChildIsCheapest(bnb.queue[index + 1],
                                           RemoveAt(bnb.queue, index + 1), bnb'.queue)]_vars

---------------------------------------------------------------------------
(* branch_and_bound as a function of its inputs *)

\* the nodes that random.choice(list(graph)) can pick as start_node
StartNodes(g) == {g[k].key[1] : k \in DOMAIN g}

\* C21: on a graph that has a complete tour of finite cost, for every start
\* key, a call of branch_and_bound that no deadline interrupts returns a
\* complete tour in Single Access mode and in Multi Access mode, and the two
\* costs are equal.
AccessTypesAgree ==
    (pc = "menu" /\ MinTourCost(graph, order) < INFINITY) =>
        \A start_node \in StartNodes(graph) :
            LET single == branch_and_bound(graph, order, start_node, SINGLE_ACCESS)
                multi == branch_and_bound(graph, order, start_node, MULTI_ACCESS)
            IN  /\ single.exc = "none" /\ multi.exc = "none"
                /\ IsTour(single.path, order) /\ IsTour(multi.path, order)
                /\ single.cost = multi.cost

\* C22: on a graph that has a complete tour of finite cost, whatever start
\* key random.choice picks, a call of branch_and_bound that no deadline
\* interrupts returns a complete tour, and the cost returned is the same for
\* every start key.
StartKeyIrrelevant ==
    (pc = "menu" /\ MinTourCost(graph, order) < INFINITY) =>
        \A a, b \in StartNodes(graph) :
            LET ra == branch_and_bound(graph, order, a, bnb_access_type)
                rb == branch_and_bound(graph, order, b, bnb_access_type)
            IN  /\ ra.exc = "none"
                /\ IsTour(ra.path, order)
                /\ ra.cost = rb.cost

---------------------------------------------------------------------------
(* Route requests that no deadline interrupts: the alarm never goes off and
   the running call takes its next step *)

NextNoDeadline ==
    \/ PlaceOrder
    \/ \E algorithm \in {NoDir, BRANCH_AND_BOUND, LOCALIZED_MIN_PATH,
                         REPETITIVE_NEAREST_NEIGHBOR} : RunTsp(algorithm)
    \/ BnbSetup \/ BnbLoop \/ BnbRecordBest \/ BnbFinish
    \/ NnStep \/ NnCloseWalk \/ NnFinish
    \/ LmpSortStep \/ LmpThreadStep \/ LmpFinish
    \/ SolverRaise
    \/ TspRotate \/ TspLocations \/ TspDisarm

\* the warehouses in which the worker ends where they started
InitNoDeadline == InitGrid(TRUE) /\ InitRoute({SINGLE_ACCESS, MULTI_ACCESS})

SpecNoDeadline == InitNoDeadline /\ [][NextNoDeadline]_vars

\* the program runs one call at a time: while branch_and_bound is running
\* it takes its next step. This is WF_vars(NextNoDeadline) for the steps of
\* branch_and_bound, with ENABLED written as the state predicate pc = "bnb".
BnbKeepsRunning == []<>(pc # "bnb") \/ []<><<TRUE>>_vars

\* every state of the frontier after was on the frontier before or extends
\* the path of node by one node, within the length of the order
ChildrenGrow(node, before, after) ==
    \A i \in DOMAIN after :
        \/ after[i] \in SeqToSet(before)
        \/ /\ Len(after[i].path) = Len(node.path) + 1
           /\ SubSeq(after[i].path, 1, Len(node.path)) = node.path
           /\ Len(after[i].path) <= Len(order)

\* C23: with no deadline firing, every state that an expansion of
\* branch_and_bound puts on the frontier has a path one node longer than the
\* path of the expanded state and no longer than the order, and every call
\* of branch_and_bound comes to an end.
BnbTerminates ==
    /\ [][(pc = "bnb" /\ bnb.at \in {"loop", "record"}
            /\ bnb'.at \in {"loop", "return", "record"}) =>
               IF bnb.at = "record"
               THEN ChildrenGrow(bnb.pending.node, bnb.queue, bnb'.queue)
               ELSE LET index == PopIndex(bnb.queue)
                    IN  ChildrenGrow(bnb.queue[index + 1],
                                     RemoveAt(bnb.queue, index + 1), bnb'.queue)]_vars
    /\ BnbKeepsRunning => ((pc = "bnb") ~> (pc # "bnb"))

\* a search over two products emptied its frontier and returned a tour
BnbTerminatesWitness ==
    /\ pc = "rotate" /\ bnb.at = "left" /\ bnb.how = "returned"
    /\ Len(order) = 4
    /\ Len(bnb.result.path) = 4
    /\ alarm = "armed"

---------------------------------------------------------------------------
(* The matrices of branch_and_bound *)

\* the costs of the matrix m, entry by entry
MatrixCosts(m) == [i \in DOMAIN m |-> [d \in DOMAIN m[i].val |-> m[i].val[d].val.cost]]

\* m is what the claim says of matrix_reduction(parent, (source, dest, _), _)
ReducedAfterCommit(parent, source, dest, m) ==
    /\ DOMAIN m = DOMAIN parent
    /\ \A i \in DOMAIN m :
          /\ m[i].key = parent[i].key
          /\ DOMAIN m[i].val = DOMAIN parent[i].val
          /\ \A d \in DOMAIN m[i].val :
                LET cost == m[i].val[d].val.cost
                    before == parent[i].val[d].val.cost
                IN  /\ (m[i].key[1] = source \/ m[i].key[2] = dest) => cost = INFINITY
                    /\ before \in {None, INFINITY} => cost = INFINITY
                    /\ cost >= 0
    /\ \A node \in {m[i].key[1] : i \in DOMAIN m} :
          LET group == UNION {ApsCosts(m[i].val) : i \in {j \in DOMAIN m : m[j].key[1] = node}}
          IN  group # {INFINITY} => MinOf(group) = 0
    /\ matrix_reduction(m, NoSource, None).reduction_cost = 0
    /\ MatrixCosts(matrix_reduction(m, NoSource, None).matrix) = MatrixCosts(m)

\* the states of the frontier after that extend the path of node hold a
\* matrix reduced from the matrix of node
ChildrenReduced(node, after) ==
    \A i \in DOMAIN after :
        (/\ Len(after[i].path) = Len(node.path) + 1
         /\ SubSeq(after[i].path, 1, Len(node.path)) = node.path) =>
            ReducedAfterCommit(node.matrix, node.source, after[i].source, after[i].matrix)

\* C24: the matrix that matrix_reduction returns for a committed edge
\* (source, dest) has cost infinity in every entry that leaves source or
\* enters dest; every entry is non-negative, an infinite or absent cost is
\* infinite afterwards, every group of entries leaving one node that has a
\* finite entry has minimum 0, and reducing the returned matrix again with no
\* committed edge gives reduction cost 0 and the same costs.
ReductionShape ==
    /\ [][(pc = "bnb" /\ bnb.at \in {"loop", "record"}
           /\ bnb'.at \in {"loop", "return", "record"}) =>
              IF bnb.at = "record"
              THEN ChildrenReduced(bnb.pending.node, bnb'.queue)
              ELSE ChildrenReduced(bnb.queue[PopIndex(bnb.queue) + 1], bnb'.queue)]_vars
    /\ [](pc = "bnb" /\ bnb.at \in {"loop", "record"} =>
              \A i \in DOMAIN bnb.queue :
                  LET again == matrix_reduction(bnb.queue[i].matrix, NoSource, None)
                  IN  /\ again.reduction_cost = 0
                      /\ MatrixCosts(again.matrix) = MatrixCosts(bnb.queue[i].matrix))

ReductionShapeWitness ==
    /\ pc = "bnb" /\ bnb.at = "loop"
    /\ \E i \in DOMAIN bnb.queue :
          /\ Len(bnb.queue[i].path) = 3
          /\ \E k \in DOMAIN bnb.queue[i].matrix :
                ApsCosts(bnb.queue[i].matrix[k].val) # {INFINITY}

---------------------------------------------------------------------------
(* The tours of the solvers *)

\* no node is named twice by one partial tour
DistinctNodes(path) ==
    \A a, b \in DOMAIN path : a # b => path[a][1] # path[b][1]

\* C25: every partial tour on the frontier of branch_and_bound names
\* pairwise-distinct nodes, and a tour that branch_and_bound or
\* nearest_neighbor returns when no timeout occurred names each node of the
\* order exactly once.
ToursNameEachNodeOnce ==
    /\ (pc = "bnb" /\ bnb.at \in {"loop", "record", "return"}) =>
            \A i \in DOMAIN bnb.queue : DistinctNodes(bnb.queue[i].path)
    /\ (bnb.at = "left" /\ bnb.how = "returned") => IsTour(bnb.result.path, order)
    /\ (nn.at = "left" /\ nn.how = "returned") => IsTour(nn.result.path, order)

\* the items of an order, without 'Start' and 'End'
OrderItems(ord) == SelectSeq(ord, LAMBDA n : n \notin {"Start", "End"})

\* min over the directions of cost(Start -> item)
CostFromStart(g, product_id) ==
    MinOf({CostOrInf(a.val.cost) : a \in SeqToSet(DictGet(g, LmpStartKey(product_id)))})

PlaceIn(s, x) == CHOOSE i \in DOMAIN s : s[i] = x

\* C26: the list that localized_min_path has pre-ordered is a permutation of
\* the items of the order, sorted non-decreasingly by the minimum over the
\* directions of the cost of the edge from Start, and items of equal cost
\* stand in their input order.
PreOrderSorted ==
    (pc = "lmp" /\ lmp.at = "thread" /\ lmp.k = 1) =>
        LET input == OrderItems(order)
            sorted == SubSeq(lmp.sorted_order, 2, Len(lmp.sorted_order) - 1)
        IN  /\ Len(sorted) = Len(input)
            /\ SeqToSet(sorted) = SeqToSet(input)
            /\ \A i, j \in DOMAIN sorted :
                   i < j =>
                       /\ CostFromStart(graph, sorted[i]) <= CostFromStart(graph, sorted[j])
                       /\ CostFromStart(graph, sorted[i]) = CostFromStart(graph, sorted[j])
                              => PlaceIn(input, sorted[i]) < PlaceIn(input, sorted[j])

---------------------------------------------------------------------------
(* get_descriptive_steps; a line of the directions is a record of the       *)
(* values that its f-string prints                                          *)

\* move_to_target(start, end) -> [move, total_steps]
move_to_target(start, end) ==
    LET x_diff == end[1] - start[1]
        y_diff == end[2] - start[2]
    IN  [move |-> [line |-> "From", from |-> start, to |-> end,
                   x_direction |-> IF x_diff < 0 THEN "left"
                                   ELSE IF x_diff > 0 THEN "right" ELSE NoDir,
                   x_steps |-> Abs(x_diff),
                   y_direction |-> IF y_diff < 0 THEN "down"
                                   ELSE IF y_diff > 0 THEN "up" ELSE NoDir,
                   y_steps |-> Abs(y_diff)],
         total_steps |-> Abs(x_diff) + Abs(y_diff)]

is_at_access_point_to_target(position, target) ==
    LET is_right == position[1] + 1 = target[1] /\ position[2] = target[2]
        is_left == position[1] - 1 = target[1] /\ position[2] = target[2]
        is_above == position[1] = target[1] /\ position[2] + 1 = target[2]
        is_below == position[1] = target[1] /\ position[2] - 1 = target[2]
    IN  is_right \/ is_left \/ is_above \/ is_below

\* "Manually remove duplicates": a position equal to the one kept last is skipped
RECURSIVE GdsDedupe(_, _, _)
GdsDedupe(positions, k, updated_positions) ==
    IF k > Len(positions) THEN updated_positions
    ELSE IF updated_positions # << >>
            /\ updated_positions[Len(updated_positions)] = positions[k]
    THEN GdsDedupe(positions, k + 1, updated_positions)
    ELSE GdsDedupe(positions, k + 1, Append(updated_positions, positions[k]))

\* `for product in _products: if self.product_info[product] == target`
RECURSIVE GdsProducts(_, _, _, _)
GdsProducts(me, products, k, target) ==
    IF k > Len(products) THEN << >>
    ELSE (IF me.product_info[products[k]] = target
          THEN << [line |-> "Pickup item", product |-> products[k], at |-> target] >>
          ELSE << >>) \o GdsProducts(me, products, k + 1, target)

\* `for target in targets`: the lines of the first target that the position
\* is an access point of, then `break`
RECURSIVE GdsPickup(_, _, _, _, _)
GdsPickup(me, position, targets, products, t) ==
    IF t > Len(targets) THEN << >>
    ELSE IF is_at_access_point_to_target(position, targets[t])
    THEN (IF products # << >> THEN GdsProducts(me, products, 1, targets[t])
          ELSE << [line |-> "Pickup item at", at |-> targets[t]] >>)
    ELSE GdsPickup(me, position, targets, products, t + 1)

\* `for position in updated_positions`, start and end popped: r is
\* [path, current_position, total_steps]
RECURSIVE GdsWalk(_, _, _, _, _, _)
GdsWalk(me, updated_positions, k, targets, products, r) ==
    IF k > Len(updated_positions) THEN r
    ELSE LET position == updated_positions[k]
             m == move_to_target(r.current_position, position)
         IN  GdsWalk(me, updated_positions, k + 1, targets, products,
                     [path |-> Append(r.path, m.move)
                                  \o GdsPickup(me, position, targets, products, 1),
                      current_position |-> position,
                      total_steps |-> r.total_steps + m.total_steps])

\* get_descriptive_steps(positions, targets, products, collapse) -> [exc, path];
\* products holds ids of product_info besides 'Start' and 'End'
get_descriptive_steps(me, positions, targets, products, collapse) ==
    LET _products == RemoveFirst(RemoveFirst(products, "Start"), "End")
        updated_positions == IF collapse THEN collapse_directions(positions)
                             ELSE GdsDedupe(positions, 1, << >>)
    IN  IF Len(updated_positions) < 2
        THEN [exc |-> "IndexError", path |-> << >>]
        ELSE LET start == updated_positions[1]
                 end == updated_positions[Len(updated_positions)]
                 walked == GdsWalk(me, SubSeq(updated_positions, 2,
                                              Len(updated_positions) - 1),
                                   1, targets, _products,
                                   [path |-> << [line |-> "Start at position",
                                                 at |-> start] >>,
                                    current_position |-> start, total_steps |-> 0])
                 back_to_start == move_to_target(walked.current_position, end)
             IN  [exc |-> "none",
                  path |-> walked.path \o
                           << back_to_start.move,
                              [line |-> "Pickup completed."],
                              [line |-> "Total Steps",
                               steps |-> walked.total_steps
                                            + back_to_start.total_steps] >>]

\* target_locations of the handler: the locations of the ordered products
RECURSIVE TargetLocations(_, _, _)
TargetLocations(me, ord, k) ==
    IF k > Len(ord) THEN << >>
    ELSE (IF ord[k] \in {"Start", "End"} \/ ord[k] \notin DOMAIN me.product_info
          THEN << >> ELSE <<me.product_info[ord[k]]>>)
         \o TargetLocations(me, ord, k + 1)

---------------------------------------------------------------------------
(* "Get Path for Order" of handle_option: the route request of the menu *)

\* `cost, id_path, path, run_time = self.run_tsp_algorithm(self.graph, self.order)`
GetPath == RunTsp(NoDir)

\* "Algo Timed Out": `if run_time == self.maximum_routing_time` the handler
\* calls run_tsp_algorithm(graph, order, REPETITIVE_NEAREST_NEIGHBOR, rerun=True)
\* and binds cost, id_path, path and run_time to what that call returns
GetPathRerun ==
    /\ pc = "done" /\ tsp.outcome = "returned" /\ ~tsp.rerun
    /\ tsp.timed_out
    /\ tsp' = [TspIdle EXCEPT !.algorithm = REPETITIVE_NEAREST_NEIGHBOR, !.rerun = TRUE]
    /\ alarm' = SignalAlarm(maximum_routing_time)
    /\ nn' = NnEnter(graph, order)
    /\ pc' = "nn"
    /\ UNCHANGED <<Settings, dj, bld, bnb, lmp>>

\* `steps = self.get_descriptive_steps(path, target_locations,
\* products=self.order, collapse=False)`; steps is kept with the results of
\* the call it was computed from
GetPathSteps ==
    /\ pc = "done" /\ tsp.outcome = "returned"
    /\ ~tsp.timed_out \/ tsp.rerun
    /\ LET r == get_descriptive_steps(Self, tsp.path, TargetLocations(Self, order, 1),
                                      order, FALSE)
       IN  IF r.exc # "none" THEN TspRaise(r.exc)
           ELSE /\ tsp' = [tsp EXCEPT !.steps = r.path]
                /\ pc' = "shown"
    /\ UNCHANGED <<Settings, alarm, dj, bld, bnb, nn, lmp>>

\* the worker returns to where they started; the access type is the default
\* of __init__
InitRequest == InitGrid(TRUE) /\ InitRoute({MULTI_ACCESS})

\* a request selects branch_and_bound for the orders of these warehouses
\* (`len(order) <= 5`) and nearest_neighbor for the rerun; neither raises
\* anything but what Timeout delivers on the graphs a request gets to

NextRequest ==
    \/ PlaceOrder
    \/ GetPath
    \/ BnbSetup \/ BnbLoop \/ BnbRecordBest \/ BnbFinish
    \/ NnStep \/ NnCloseWalk \/ NnFinish
    \/ TspRotate \/ TspLocations \/ TspDisarm
    \/ Timeout
    \/ GetPathRerun
    \/ GetPathSteps

SpecRequest == InitRequest /\ [][NextRequest]_vars

\* the tour that the timed-out branch_and_bound handed back is complete
FoundBeforeTimeout ==
    /\ bnb.at = "left" /\ bnb.how = "timeout"
    /\ IsTour(bnb.result.path, order)

\* C27: when the solver that a route request selected times out, the request
\* is completed by a run of localized_min_path, and a complete tour that the
\* timed-out solver had found is not lost: the request ends with a complete
\* tour that costs no more.
TimeoutFallsBackToLmp ==
    /\ tsp.rerun => tsp.algorithm = LOCALIZED_MIN_PATH
    /\ (tsp.rerun /\ pc = "done" /\ FoundBeforeTimeout) =>
            /\ tsp.outcome = "returned"
            /\ IsTour(tsp.rotated_path, order)
            /\ tsp.cost <= bnb.result.cost

\* the approach cell at which the tour picks up its i-th node
TourApproach(g, path, i) ==
    DictGet(DictGet(g, <<path[i - 1][1], path[i][1], path[i - 1][2]>>), path[i][2]).location

PickupLine(steps, product_id) ==
    \E i \in DOMAIN steps :
        steps[i].line = "Pickup item" /\ steps[i].product = product_id

\* C28: the directions of get_descriptive_steps hold a pickup line for every
\* ordered item whose approach cell lies on the resolved route, also when
\* that cell is the first or the last position of the route or is next to
\* two targets.
PickupAtEveryApproach ==
    (pc = "shown") =>
        \A i \in 2 .. Len(tsp.rotated_path) :
            (/\ tsp.rotated_path[i][1] \notin {"Start", "End"}
             /\ TourApproach(graph, tsp.rotated_path, i) \in SeqToSet(tsp.path))
                => PickupLine(tsp.steps, tsp.rotated_path[i][1])

\* C29: the cost that branch_and_bound or nearest_neighbor returns with a
\* complete tour, when no timeout occurred, is the sum of the original edge
\* costs of the graph over the consecutive pairs of the tour plus the edge
\* that closes the loop.
ReturnedCostIsTourCost ==
    /\ (bnb.at = "left" /\ bnb.how = "returned" /\ IsTour(bnb.result.path, order)) =>
            bnb.result.cost = TourCost(graph, bnb.result.path)
    /\ (nn.at = "left" /\ nn.how = "returned" /\ IsTour(nn.result.path, order)) =>
            nn.result.cost = TourCost(graph, nn.result.path)

---------------------------------------------------------------------------
(* The matrix objects of branch_and_bound: which object every frontier      *)
(* state and every cache entry refers to, and which object a reduction      *)
(* writes to. The costs that order the frontier play no part here, so any   *)
(* queued state may be the one that is popped.                              *)

MaxObjects == 10

\* the seeds all refer to the one child_matrix
RECURSIVE ObjSeed(_, _, _, _, _)
ObjSeed(parent_matrix, start_node, child_matrix, k, queue) ==
    IF k > Len(parent_matrix) THEN queue
    ELSE LET key == parent_matrix[k].key
         IN  ObjSeed(parent_matrix, start_node, child_matrix, k + 1,
                     IF start_node = key[1]
                     THEN Append(queue, [source |-> key[1], source_direction |-> key[3],
                                         matrix |-> child_matrix,
                                         path |-> << <<key[1], key[3]>> >>])
                     ELSE queue)

\* steps 1 to 5 of branch_and_bound: object 1 is the graph of the caller,
\* `reduced_cost, parent_matrix = self.matrix_reduction(graph)` and
\* `child_matrix = deepcopy(parent_matrix)`
ObjEnter(g, start_node) ==
    LET parent == ObjReduce(<<g>>, 1, NoSource)
        child == ObjCopy(parent.objects, parent.ref)
    IN  [at |-> "objects", objects |-> child.objects,
         queue |-> ObjSeed(child.objects[parent.ref], start_node, child.ref, 1, << >>),
         cached_matrices |-> << >>, popped |-> FALSE, closed |-> FALSE,
         k |-> 0, d |-> 0,
         node |-> [source |-> NoDir, source_direction |-> NoDir, matrix |-> 0,
                   path |-> << >>]]

ObjSetup ==
    /\ pc = "menu"
    /\ bnb' \in {ObjEnter(graph, start_node) : start_node \in StartNodes(graph)}
    /\ pc' = "objects"
    /\ UNCHANGED <<Settings, alarm, dj, bld, nn, lmp, tsp>>

\* `source, source_direction, cost, matrix, src_path = queue.pop(index)`
ObjPop ==
    /\ pc = "objects" /\ ~bnb.popped
    /\ \E i \in DOMAIN bnb.queue :
          bnb' = [bnb EXCEPT !.popped = TRUE, !.node = bnb.queue[i],
                             !.queue = RemoveAt(@, i), !.closed = FALSE,
                             !.k = 0, !.d = 0]
    /\ UNCHANGED <<Settings, alarm, pc, dj, bld, nn, lmp, tsp>>

\* `final_reduction, final_matrix = self.matrix_reduction(matrix)` for a
\* popped state that is a complete tour
ObjFinal ==
    /\ pc = "objects" /\ bnb.popped
    /\ Len(bnb.node.path) = Len(order) /\ ~bnb.closed
    /\ Len(bnb.objects) < MaxObjects
    /\ bnb' = [bnb EXCEPT !.closed = TRUE,
                          !.objects = ObjReduce(@, bnb.node.matrix, NoSource).objects]
    /\ UNCHANGED <<Settings, alarm, pc, dj, bld, nn, lmp, tsp>>

\* the (entry, direction) pairs of the expansion of the popped state that
\* the two `for` loops have not reached yet and that yield a child
ObjAhead(b) ==
    LET matrix == b.objects[b.node.matrix]
    IN  {p \in (DOMAIN matrix) \X (DOMAIN DirNames) :
            /\ p[1] > b.k \/ (p[1] = b.k /\ p[2] > b.d)
            /\ b.node.source = matrix[p[1]].key[1]
            /\ b.node.source_direction = matrix[p[1]].key[3]
            /\ matrix[p[1]].key[2] \notin PathNodes(b.node.path)
            /\ p[2] \in DOMAIN matrix[p[1]].val
            /\ matrix[p[1]].val[p[2]].val.cost \notin {None, INFINITY}}

\* one direction of one entry of the expansion, under Multi Access and
\* before a tour is recorded: the reduced matrix is taken from
\* cached_matrices or made by matrix_reduction and cached, and the child
\* that is queued holds `deepcopy(temp_matrix)`
ObjExpand(b) ==
    LET ahead == ObjAhead(b)
        p == CHOOSE q \in ahead :
                 \A r \in ahead : q[1] < r[1] \/ (q[1] = r[1] /\ q[2] <= r[2])
        node == b.node
        entry == b.objects[node.matrix][p[1]]
        dest == entry.key[2]
        direc == entry.val[p[2]].key
        ckey == <<node.path, dest>>
        hit == DictHas(b.cached_matrices, ckey)
        temp == IF hit
                THEN [objects |-> b.objects, ref |-> DictGet(b.cached_matrices, ckey)]
                ELSE ObjReduce(b.objects, node.matrix, entry.key)
        child == ObjCopy(temp.objects, temp.ref)
    IN  [b EXCEPT !.k = p[1], !.d = p[2],
                  !.objects = child.objects,
                  !.cached_matrices = IF hit THEN @ ELSE DictSet(@, ckey, temp.ref),
                  !.queue = Append(@, [source |-> dest, source_direction |-> direc,
                                       matrix |-> child.ref,
                                       path |-> Append(node.path, <<dest, direc>>)])]

ObjChild ==
    /\ pc = "objects" /\ bnb.popped
    /\ Len(bnb.node.path) = Len(order) => bnb.closed
    /\ Len(bnb.objects) + 2 <= MaxObjects
    /\ ObjAhead(bnb) # {}
    /\ bnb' = ObjExpand(bnb)
    /\ UNCHANGED <<Settings, alarm, pc, dj, bld, nn, lmp, tsp>>

\* the iteration of `while queue` ends
ObjNext ==
    /\ pc = "objects" /\ bnb.popped
    /\ Len(bnb.node.path) = Len(order) => bnb.closed
    /\ ObjAhead(bnb) = {}
    /\ bnb' = [bnb EXCEPT !.popped = FALSE]
    /\ UNCHANGED <<Settings, alarm, pc, dj, bld, nn, lmp, tsp>>

\* warehouses without further products, the worker returning to the start
InitObjects ==
    /\ \E items \in ItemSeqs : \E l \in LayoutsOf(items, {}) :
           l.end = l.start /\ InitLayout(l)
    /\ InitRoute({MULTI_ACCESS})

NextObjects ==
    \/ PlaceOrder
    \/ ObjSetup \/ ObjPop \/ ObjFinal \/ ObjNext
    \/ ObjChild
    \/ \E algorithm \in {LOCALIZED_MIN_PATH, REPETITIVE_NEAREST_NEIGHBOR} : RunTsp(algorithm)
    \/ NnStep \/ NnCloseWalk \/ NnFinish
    \/ LmpSortStep \/ LmpThreadStep \/ LmpFinish

SpecObjects == InitObjects /\ [][NextObjects]_vars

\* C30: no solver run changes the graph it was given, and a reduction in
\* branch_and_bound changes no matrix object that existed before it: not
\* the graph of the caller, not the matrix of a frontier state, not a matrix
\* of the cache.
ObjectsKept ==
    /\ [][(pc \in {"menu", "objects", "nn", "lmp"}) => (graph' = graph)]_vars
    /\ [][(pc = "objects" /\ pc' = "objects") =>
              \A i \in DOMAIN bnb.objects : bnb'.objects[i] = bnb.objects[i]]_vars
    /\ [](pc = "objects" => bnb.objects[1] = graph)

ObjectsKeptWitness ==
    /\ pc = "objects"
    /\ bnb.objects[2] # graph
    /\ bnb.cached_matrices # << >>
    /\ \E i, j \in DOMAIN bnb.queue :
          /\ bnb.queue[i].matrix # bnb.queue[j].matrix
          /\ bnb.objects[bnb.queue[i].matrix] # bnb.objects[bnb.queue[j].matrix]
    /\ \E i \in DOMAIN bnb.queue : \E c \in DOMAIN bnb.cached_matrices :
          bnb.objects[bnb.queue[i].matrix] = bnb.objects[bnb.cached_matrices[c].val]

=============================================================================
